---- MODULE Spec2Model ----
(***************************************************************************)
(* A model of DriveFileSystem (src/chromeos/drive/drive_file_system.cc):   *)
(* the open-file set, the file materialization pipeline behind GetFile     *)
(* and OpenFile, CloseFile and CreateFile.                                 *)
(*                                                                         *)
(* Every public operation is asynchronous: a call registers a request and  *)
(* each continuation (a base::Bind callback of the source) is one action.  *)
(* The collaborators (DriveResourceMetadata, DriveCache, DriveScheduler,   *)
(* the blocking pool, DriveOperations) are the environment: the reply each *)
(* continuation receives is drawn from the replies the collaborator can    *)
(* give.  Every call a request makes on a collaborator is appended to the  *)
(* request's call log.                                                     *)
(***************************************************************************)
EXTENDS Naturals, Sequences, FiniteSets

VARIABLES
    open_files_,   \* DriveFileSystem::open_files_, a set of drive paths
    req,           \* the requests: slot -> request record
    held,          \* per path, what the callers hold: "closed", "open", "double"
    script,        \* the scripted caller of the end-to-end scenario and its log
    now,                        \* base::Time::Now(), in seconds
    update_timer_,              \* DriveFileSystem::update_timer_
    polling_interval_sec_,      \* DriveFileSystem::polling_interval_sec_
    push_notification_enabled_, \* DriveFileSystem::push_notification_enabled_
    last_update_check_time_,    \* DriveFileSystem::last_update_check_time_
    last_update_check_error_,   \* DriveFileSystem::last_update_check_error_
    change_list_loader_,        \* DriveFileSystem::change_list_loader_
    resets_pending,             \* resource_metadata_->Reset calls not replied
    last_tick,                  \* what the last firing of update_timer_ found
    tree,          \* the entry tree of DriveResourceMetadata
    feed,          \* the ChangeBatch being applied, or the last one applied
    todo,          \* the entries of the batch left in the pass under way
    deferred,      \* the entries deferred to the next pass
    phase,         \* "deletions", "entries" or "applied"
    passes,        \* the passes made over the entries of the batch
    search         \* the Search under way: its result batch and its lookups

fsVars == <<open_files_, req, held, script>>

pollVars == <<now, update_timer_, polling_interval_sec_,
              push_notification_enabled_, last_update_check_time_,
              last_update_check_error_, change_list_loader_, resets_pending,
              last_tick>>

\* What the calls of the file operations leave alone.
treeVars == <<tree, feed, todo, deferred, phase, passes>>

searchVars == <<search>>

backgroundVars == <<pollVars, treeVars, searchVars>>

vars == <<fsVars, backgroundVars>>

\* The number of request slots: requests that can be in flight together.
MaxReq == 2

Slots == 1..MaxReq

Paths == {"/a.txt"}

\* The drive paths of the calls made one at a time.
DrivePaths == {"/a.txt", "/d/b.txt"}

\* base::FilePath::DirName, on the drive paths.
DirName(p) ==
    CASE p = "/a.txt" -> "/"
      [] p = "/d/b.txt" -> "/d"

Md5s == {"m1", "m2"}

\* DriveFileError values seen by the callers.
DRIVE_FILE_OK == "OK"
DRIVE_FILE_ERROR_FAILED == "FAILED"
DRIVE_FILE_ERROR_IN_USE == "IN_USE"
DRIVE_FILE_ERROR_NOT_FOUND == "NOT_FOUND"
DRIVE_FILE_ERROR_EXISTS == "EXISTS"
DRIVE_FILE_ERROR_INVALID_OPERATION == "INVALID_OPERATION"
DRIVE_FILE_ERROR_ACCESS_DENIED == "ACCESS_DENIED"
DRIVE_FILE_ERROR_NO_SPACE == "NO_SPACE"
DRIVE_FILE_ERROR_CANCELLED == "CANCELLED"
DRIVE_FILE_ERROR_NOT_A_DIRECTORY == "NOT_A_DIRECTORY"

kMimeTypeJson == "application/json"
kEmptyFilePath == "/dev/null"

\* DriveFileType
REGULAR_FILE == "REGULAR_FILE"
HOSTED_DOCUMENT == "HOSTED_DOCUMENT"

\* DriveClientContext types
USER_INITIATED == "USER_INITIATED"
BACKGROUND == "BACKGROUND"

\* The contexts GetFileByResourceId is called with.  The context is only
\* passed on to the scheduler; GetFileByPath always passes USER_INITIATED, so
\* with BACKGROUND here both values go down the pipeline.
ResourceIdContexts == {BACKGROUND}

(***************************************************************************)
(* DriveEntryProto, as far as DriveFileSystem reads it.                    *)
(***************************************************************************)
NullEntry ==
    [kind |-> "null", file_md5 |-> "", content_mime_type |-> "", size |-> "",
     resource_id |-> "", changestamp |-> ""]

RegularFileEntry(m) ==
    [kind |-> "file", file_md5 |-> m, content_mime_type |-> "text/plain",
     size |-> m, resource_id |-> "id1", changestamp |-> ""]

HostedDocumentEntry ==
    [kind |-> "hosted", file_md5 |-> "",
     content_mime_type |-> "application/vnd.google-apps.document",
     size |-> "", resource_id |-> "id1", changestamp |-> ""]

DirectoryEntry ==
    [kind |-> "dir", file_md5 |-> "", content_mime_type |-> "", size |-> "",
     resource_id |-> "id1", changestamp |-> "c1"]

EntryProtos ==
    {RegularFileEntry(m) : m \in Md5s} \cup {HostedDocumentEntry, DirectoryEntry}

has_file_specific_info(e) == e.kind \in {"file", "hosted"}
is_directory(e) == e.kind = "dir"
is_hosted_document(e) == e.kind = "hosted"

\* The replies of DriveResourceMetadata::GetEntryInfoByPath (and ByResourceId).
GetEntryInfoReplies ==
    {[error |-> DRIVE_FILE_OK, entry |-> e] : e \in EntryProtos}
    \cup {[error |-> x, entry |-> NullEntry] :
              x \in {DRIVE_FILE_ERROR_NOT_FOUND, DRIVE_FILE_ERROR_FAILED}}

\* The replies to the lookup that starts a GetFile or an OpenFile.  The md5
\* values are interchangeable, so the md5 a request first learns is LocalMd5;
\* the server may later report the same md5 or another one.
LocalMd5 == "m1"

FirstGetEntryInfoReplies ==
    {x \in GetEntryInfoReplies :
         x.entry.kind = "file" => x.entry.file_md5 = LocalMd5}

\* The DriveFileError replies of a DriveCache or DriveResourceMetadata call.
FileErrorReplies == {DRIVE_FILE_OK, DRIVE_FILE_ERROR_FAILED}

\* The replies of DriveCache::GetFile: the file is in the cache or it is not.
CacheGetFileReplies == {DRIVE_FILE_OK, DRIVE_FILE_ERROR_NOT_FOUND}

(***************************************************************************)
(* Requests.                                                               *)
(***************************************************************************)
NoResult == [error |-> "none", file |-> "", mime_type |-> "", file_type |-> ""]

IdleRequest ==
    [op |-> "none", pc |-> "idle", path |-> "", is_exclusive |-> FALSE,
     context |-> "", entry_proto |-> NullEntry, open_md5 |-> "",
     calls |-> <<>>, replies |-> <<>>, cancel |-> "none",
     result |-> NoResult,
     path_open_at_callback |-> FALSE, was_open_at_call |-> FALSE,
     envok |-> TRUE, runs |-> 0, calls_at_callback |-> 0,
     given_context |-> ""]

NewRequest(op, p) == [IdleRequest EXCEPT !.op = op, !.path = p]

\* A slot can take a new request when no continuation of it is pending.
Free(r) == req[r].pc \in {"idle", "done"} /\ req[r].cancel # "lookup"

\* New requests take the lowest free slot.
Available(r) == Free(r) /\ \A q \in Slots : q < r => ~Free(q)

Call(rq, callee, arg) == [rq EXCEPT !.calls = Append(@, <<callee, arg>>)]

Callees(rq) == {rq.calls[i][1] : i \in 1..Len(rq.calls)}

BoolStr(b) == IF b THEN "TRUE" ELSE "FALSE"

\* The local path of the cache file of (this resource, md5).
CacheFilePath(md5) == md5

\* callback.Run(...) of the caller's completion callback: the request is over.
\* |open| is open_files_ at the moment the callback runs; |runs| counts the
\* runs of the callback and |calls_at_callback| the calls made before it.
RunUserCallback(rq, open, res) ==
    [rq EXCEPT !.pc = "done", !.result = res,
               !.path_open_at_callback = (rq.path \in open),
               !.runs = @ + 1,
               !.calls_at_callback = Len(rq.calls)]

ErrorResult(error) ==
    [error |-> error, file |-> "", mime_type |-> "", file_type |-> ""]

FileResult(error, file, mime, type) ==
    [error |-> error, file |-> file, mime_type |-> mime, file_type |-> type]

\* What the callers hold after an OpenFile callback with |error|.
HeldAfterOpen(h, error) ==
    IF error # DRIVE_FILE_OK THEN h
    ELSE IF h = "closed" THEN "open" ELSE "double"

(***************************************************************************)
(* OpenFile                                                                *)
(***************************************************************************)
\* OnOpenFileFinished leaving the path in open_files_ whatever the result.
OnOpenFileFinished_KeepsPath(rq, open, result, cache_file_path) ==
    [rq |-> RunUserCallback(rq, open,
                FileResult(result, cache_file_path, "", "")),
     open |-> open]

\* DriveFileSystem::OnOpenFileFinished: every completion of an OpenFile that
\* passed the open_files_ check goes through here.
OnOpenFileFinished(rq, open, result, cache_file_path) ==
    LET open2 == IF result # DRIVE_FILE_OK THEN open \ {rq.path} ELSE open
    IN  [rq |-> RunUserCallback(rq, open2,
                    FileResult(result, cache_file_path, "", "")),
         open |-> open2]

\* DriveFileSystem::OnGetFileCompleteForOpenFile: the get_file_callback of an
\* OpenFile request.
OnGetFileCompleteForOpenFile(rq, open, res) ==
    IF res.error # DRIVE_FILE_OK
    THEN OnOpenFileFinished(rq, open, res.error, "")
    ELSE [rq |-> Call([rq EXCEPT !.pc = "OnMarkDirtyInCacheCompleteForOpenFile"],
                      "cache.MarkDirty", rq.open_md5),
          open |-> open]

(***************************************************************************)
(* GetResolvedFileParams and the file materialization pipeline             *)
(***************************************************************************)
\* params->get_file_callback.Run(...): OnGetFileCompleteForOpenFile for an
\* OpenFile request, the caller's callback for a GetFile request.
RunGetFileCallback(rq, open, res) ==
    IF rq.op = "OpenFile"
    THEN OnGetFileCompleteForOpenFile(rq, open, res)
    ELSE [rq |-> RunUserCallback(rq, open, res), open |-> open]

\* GetResolvedFileParams::OnError
OnError(rq, open, error) ==
    RunGetFileCallback(rq, open, FileResult(error, "", "", REGULAR_FILE))

\* GetResolvedFileParams::OnCacheFound
OnCacheFound(rq, open, local_file_path) ==
    IF is_hosted_document(rq.entry_proto)
    THEN RunGetFileCallback(rq, open,
             FileResult(DRIVE_FILE_OK, local_file_path, kMimeTypeJson,
                        HOSTED_DOCUMENT))
    ELSE RunGetFileCallback(rq, open,
             FileResult(DRIVE_FILE_OK, local_file_path,
                        rq.entry_proto.content_mime_type, REGULAR_FILE))

\* GetResolvedFileParams::OnStoreCompleted
OnStoreCompleted(rq, open, local_file_path) ==
    RunGetFileCallback(rq, open,
        FileResult(DRIVE_FILE_OK, local_file_path,
                   rq.entry_proto.content_mime_type, REGULAR_FILE))

\* GetResolvedFileByPath treating a hosted document as a regular file.
GetResolvedFileByPath_NoHostedBranch(rq, open) ==
    IF ~has_file_specific_info(rq.entry_proto)
    THEN OnError(rq, open, DRIVE_FILE_ERROR_NOT_FOUND)
    ELSE [rq |-> Call([rq EXCEPT
                           !.pc = "GetResolvedFileByPathAfterGetFileFromCache"],
                      "cache.GetFile", rq.entry_proto.file_md5),
          open |-> open]

\* GetResolvedFileByPath going on to the cache for an entry without
\* file-specific information.
GetResolvedFileByPath_NoFileInfoCheck(rq, open) ==
    IF is_hosted_document(rq.entry_proto)
    THEN [rq |-> Call([rq EXCEPT
                           !.pc = "GetResolvedFileByPathAfterCreateDocumentJsonFile"],
                      "blocking_pool.CreateDocumentJsonFile", ""),
          open |-> open]
    ELSE [rq |-> Call([rq EXCEPT
                           !.pc = "GetResolvedFileByPathAfterGetFileFromCache"],
                      "cache.GetFile", rq.entry_proto.file_md5),
          open |-> open]

\* DriveFileSystem::GetResolvedFileByPath, on a request whose entry_proto is
\* the resolved entry.
GetResolvedFileByPath(rq, open) ==
    IF ~has_file_specific_info(rq.entry_proto)
    THEN OnError(rq, open, DRIVE_FILE_ERROR_NOT_FOUND)
    ELSE IF is_hosted_document(rq.entry_proto)
    THEN [rq |-> Call([rq EXCEPT
                           !.pc = "GetResolvedFileByPathAfterCreateDocumentJsonFile"],
                      "blocking_pool.CreateDocumentJsonFile", ""),
          open |-> open]
    ELSE [rq |-> Call([rq EXCEPT
                           !.pc = "GetResolvedFileByPathAfterGetFileFromCache"],
                      "cache.GetFile", rq.entry_proto.file_md5),
          open |-> open]

\* util::GDataToDriveFileError
GDataToDriveFileError(status) ==
    CASE status = "HTTP_SUCCESS" -> DRIVE_FILE_OK
      [] status = "GDATA_CANCELLED" -> DRIVE_FILE_ERROR_CANCELLED
      [] OTHER -> DRIVE_FILE_ERROR_FAILED

GDataErrorCodes == {"HTTP_SUCCESS", "GDATA_CANCELLED", "GDATA_OTHER_ERROR"}

\* The replies of DriveScheduler::GetResourceEntry: a status and, on success,
\* an entry whose download URL is empty or not.
GetResourceEntryReplies ==
    {[status |-> "HTTP_SUCCESS", download_url |-> u] :
         u \in {"", "https://download"}}
    \cup {[status |-> "GDATA_OTHER_ERROR", download_url |-> ""]}

\* The replies of DriveResourceMetadata::RefreshEntry.
RefreshEntryReplies ==
    {[error |-> DRIVE_FILE_OK, entry |-> RegularFileEntry(m)] : m \in Md5s}
    \cup {[error |-> DRIVE_FILE_ERROR_NOT_FOUND, entry |-> NullEntry]}

\* DriveFileSystem::GetResolvedFileByPathAfterCreateDocumentJsonFile
GetResolvedFileByPathAfterCreateDocumentJsonFile(rq, open, error) ==
    IF error # DRIVE_FILE_OK
    THEN OnError(rq, open, error)
    ELSE OnCacheFound(rq, open, "document.json")

\* GetResolvedFileByPathAfterGetFileFromCache fetching from the server
\* whatever the cache answered.
GetResolvedFileByPathAfterGetFileFromCache_AlwaysFetches(rq, open, error) ==
    [rq |-> Call([rq EXCEPT
                      !.pc = "GetResolvedFileByPathAfterGetResourceEntry"],
                 "scheduler.GetResourceEntry", rq.context),
     open |-> open]

\* GetResolvedFileByPathAfterGetFileFromCache without the return after
\* OnCacheFound: on a cache hit it goes on to the server as well.
GetResolvedFileByPathAfterGetFileFromCache_MissingReturn(rq, open, error) ==
    LET out == IF error = DRIVE_FILE_OK
               THEN OnCacheFound(rq, open, CacheFilePath(rq.entry_proto.file_md5))
               ELSE [rq |-> rq, open |-> open]
    IN  [rq |-> Call([out.rq EXCEPT
                          !.pc = "GetResolvedFileByPathAfterGetResourceEntry"],
                     "scheduler.GetResourceEntry", rq.context),
         open |-> out.open]

\* DriveFileSystem::GetResolvedFileByPathAfterGetFileFromCache
GetResolvedFileByPathAfterGetFileFromCache(rq, open, error) ==
    IF error = DRIVE_FILE_OK
    THEN OnCacheFound(rq, open, CacheFilePath(rq.entry_proto.file_md5))
    ELSE [rq |-> Call([rq EXCEPT
                           !.pc = "GetResolvedFileByPathAfterGetResourceEntry"],
                      "scheduler.GetResourceEntry", rq.context),
          open |-> open]

\* GetResolvedFileByPathAfterGetResourceEntry going on with an empty
\* download URL.
GetResolvedFileByPathAfterGetResourceEntry_NoUrlCheck(rq, open, reply) ==
    IF GDataToDriveFileError(reply.status) # DRIVE_FILE_OK
    THEN OnError(rq, open, GDataToDriveFileError(reply.status))
    ELSE [rq |-> Call([rq EXCEPT
                           !.pc = "GetResolvedFileByPathAfterRefreshEntry"],
                      "resource_metadata.RefreshEntry", "fresh entry"),
          open |-> open]

\* DriveFileSystem::GetResolvedFileByPathAfterGetResourceEntry
GetResolvedFileByPathAfterGetResourceEntry(rq, open, reply) ==
    IF GDataToDriveFileError(reply.status) # DRIVE_FILE_OK
    THEN OnError(rq, open, GDataToDriveFileError(reply.status))
    ELSE IF reply.download_url = ""
    THEN OnError(rq, open, DRIVE_FILE_ERROR_ACCESS_DENIED)
    ELSE [rq |-> Call([rq EXCEPT
                           !.pc = "GetResolvedFileByPathAfterRefreshEntry"],
                      "resource_metadata.RefreshEntry", "fresh entry"),
          open |-> open]

\* GetResolvedFileByPathAfterRefreshEntry going on with the entry the
\* request started with.
GetResolvedFileByPathAfterRefreshEntry_KeepsLocalEntry(rq, open, reply) ==
    IF reply.error # DRIVE_FILE_OK
    THEN OnError(rq, open, reply.error)
    ELSE [rq |-> Call([rq EXCEPT
                           !.pc = "GetResolvedFileByPathAfterFreeDiskSpace"],
                      "cache.FreeDiskSpaceIfNeededFor", rq.entry_proto.size),
          open |-> open]

\* DriveFileSystem::GetResolvedFileByPathAfterRefreshEntry
GetResolvedFileByPathAfterRefreshEntry(rq, open, reply) ==
    IF reply.error # DRIVE_FILE_OK
    THEN OnError(rq, open, reply.error)
    ELSE [rq |-> Call([rq EXCEPT
                           !.pc = "GetResolvedFileByPathAfterFreeDiskSpace",
                           !.entry_proto = reply.entry],
                      "cache.FreeDiskSpaceIfNeededFor", reply.entry.size),
          open |-> open]

\* GetResolvedFileByPathAfterFreeDiskSpace going on without enough space.
GetResolvedFileByPathAfterFreeDiskSpace_IgnoresSpace(rq, open, has_enough_space) ==
    [rq |-> Call([rq EXCEPT
                      !.pc = "GetResolveFileByPathAfterCreateTemporaryFile"],
                 "blocking_pool.CreateTemporaryFileInDir", ""),
     open |-> open]

\* DriveFileSystem::GetResolvedFileByPathAfterFreeDiskSpace
GetResolvedFileByPathAfterFreeDiskSpace(rq, open, has_enough_space) ==
    IF ~has_enough_space
    THEN OnError(rq, open, DRIVE_FILE_ERROR_NO_SPACE)
    ELSE [rq |-> Call([rq EXCEPT
                           !.pc = "GetResolveFileByPathAfterCreateTemporaryFile"],
                      "blocking_pool.CreateTemporaryFileInDir", ""),
          open |-> open]

\* GetResolveFileByPathAfterCreateTemporaryFile downloading although no
\* temporary file was created.
GetResolveFileByPathAfterCreateTemporaryFile_IgnoresFailure(rq, open, success) ==
    [rq |-> Call([rq EXCEPT
                      !.pc = "GetResolvedFileByPathAfterDownloadFile"],
                 "scheduler.DownloadFile", rq.context),
     open |-> open]

\* DriveFileSystem::GetResolveFileByPathAfterCreateTemporaryFile
GetResolveFileByPathAfterCreateTemporaryFile(rq, open, success) ==
    IF ~success
    THEN OnError(rq, open, DRIVE_FILE_ERROR_FAILED)
    ELSE [rq |-> Call([rq EXCEPT
                           !.pc = "GetResolvedFileByPathAfterDownloadFile"],
                      "scheduler.DownloadFile", rq.context),
          open |-> open]

\* GetResolvedFileByPathAfterDownloadFile treating a cancelled download as a
\* finished one: it stores the partial file.
GetResolvedFileByPathAfterDownloadFile_StoresCancelled(rq, open, status) ==
    LET rq1 == IF status = "GDATA_CANCELLED"
               THEN Call([rq EXCEPT !.cancel = "lookup"],
                         "cache.GetCacheEntry", rq.entry_proto.file_md5)
               ELSE rq
    IN  IF GDataToDriveFileError(status) = DRIVE_FILE_ERROR_FAILED
        THEN OnError(rq1, open, GDataToDriveFileError(status))
        ELSE [rq |-> Call([rq1 EXCEPT !.pc = "GetResolvedFileByPathAfterStore"],
                          "cache.Store", rq1.entry_proto.file_md5),
              open |-> open]

\* DriveFileSystem::GetResolvedFileByPathAfterDownloadFile
GetResolvedFileByPathAfterDownloadFile(rq, open, status) ==
    LET rq1 == IF status = "GDATA_CANCELLED"
               THEN Call([rq EXCEPT !.cancel = "lookup"],
                         "cache.GetCacheEntry", rq.entry_proto.file_md5)
               ELSE rq
    IN  IF GDataToDriveFileError(status) # DRIVE_FILE_OK
        THEN OnError(rq1, open, GDataToDriveFileError(status))
        ELSE [rq |-> Call([rq1 EXCEPT !.pc = "GetResolvedFileByPathAfterStore"],
                          "cache.Store", rq1.entry_proto.file_md5),
              open |-> open]

\* GetResolvedFileByPathAfterGetCacheEntryForCancel unpinning every cache
\* entry it finds, pinned or not.
GetResolvedFileByPathAfterGetCacheEntryForCancel_IgnoresPinned(rq, success, is_pinned) ==
    IF success
    THEN Call([rq EXCEPT !.cancel = "unpin"],
              "cache.Unpin", rq.entry_proto.file_md5)
    ELSE [rq EXCEPT !.cancel = "no unpin"]

\* DriveFileSystem::GetResolvedFileByPathAfterGetCacheEntryForCancel
GetResolvedFileByPathAfterGetCacheEntryForCancel(rq, success, is_pinned) ==
    IF success /\ is_pinned
    THEN Call([rq EXCEPT !.cancel = "unpin"],
              "cache.Unpin", rq.entry_proto.file_md5)
    ELSE [rq EXCEPT !.cancel = "no unpin"]

\* GetResolvedFileByPathAfterStore leaving the downloaded file behind when
\* the store failed.
GetResolvedFileByPathAfterStore_NoDelete(rq, open, error) ==
    IF error # DRIVE_FILE_OK
    THEN OnError(rq, open, error)
    ELSE [rq |-> Call(Call([rq EXCEPT
                                !.pc = "GetResolvedFileByPathAfterGetFile"],
                           "observers.OnDirectoryChanged", DirName(rq.path)),
                      "cache.GetFile", rq.entry_proto.file_md5),
          open |-> open]

\* GetResolvedFileByPathAfterStore notifying the observers of the file
\* instead of its directory.
GetResolvedFileByPathAfterStore_NotifiesFile(rq, open, error) ==
    IF error # DRIVE_FILE_OK
    THEN OnError(Call(rq, "blocking_pool.Delete", "downloaded file"),
                 open, error)
    ELSE [rq |-> Call(Call([rq EXCEPT
                                !.pc = "GetResolvedFileByPathAfterGetFile"],
                           "observers.OnDirectoryChanged", rq.path),
                      "cache.GetFile", rq.entry_proto.file_md5),
          open |-> open]

\* DriveFileSystem::GetResolvedFileByPathAfterStore
GetResolvedFileByPathAfterStore(rq, open, error) ==
    IF error # DRIVE_FILE_OK
    THEN OnError(Call(rq, "blocking_pool.Delete", "downloaded file"),
                 open, error)
    ELSE [rq |-> Call(Call([rq EXCEPT
                                !.pc = "GetResolvedFileByPathAfterGetFile"],
                           "observers.OnDirectoryChanged", DirName(rq.path)),
                      "cache.GetFile", rq.entry_proto.file_md5),
          open |-> open]

\* DriveFileSystem::GetResolvedFileByPathAfterGetFile
GetResolvedFileByPathAfterGetFile(rq, open, error) ==
    IF error # DRIVE_FILE_OK
    THEN OnError(rq, open, error)
    ELSE OnStoreCompleted(rq, open, CacheFilePath(rq.entry_proto.file_md5))

\* DriveFileSystem::OnGetEntryInfoCompleteForOpenFile
OnGetEntryInfoCompleteForOpenFile(rq, open, reply) ==
    LET error1 == IF reply.entry # NullEntry
                     /\ ~has_file_specific_info(reply.entry)
                  THEN DRIVE_FILE_ERROR_NOT_FOUND
                  ELSE reply.error
        error2 == IF error1 = DRIVE_FILE_OK
                     /\ (reply.entry.file_md5 = ""
                         \/ is_hosted_document(reply.entry))
                  THEN DRIVE_FILE_ERROR_INVALID_OPERATION
                  ELSE error1
    IN  IF error2 # DRIVE_FILE_OK
        THEN OnOpenFileFinished(rq, open, error2, "")
        ELSE GetResolvedFileByPath(
                 [rq EXCEPT !.entry_proto = reply.entry,
                            !.open_md5 = reply.entry.file_md5,
                            !.context = USER_INITIATED],
                 open)

\* DriveFileSystem::OnMarkDirtyInCacheCompleteForOpenFile
OnMarkDirtyInCacheCompleteForOpenFile(rq, open, error) ==
    IF error # DRIVE_FILE_OK
    THEN OnOpenFileFinished(rq, open, error, "")
    ELSE [rq |-> Call([rq EXCEPT !.pc = "OnOpenFileFinished"],
                      "cache.GetFile", rq.open_md5),
          open |-> open]

\* OpenFile without the open_files_ check: every call is let through.
OpenFile_NoInUseCheck(r, p) ==
    /\ Available(r)
    /\ open_files_' = open_files_ \cup {p}
    /\ req' = [req EXCEPT ![r] =
           Call([NewRequest("OpenFile", p) EXCEPT
                     !.was_open_at_call = (p \in open_files_),
                     !.pc = "OnGetEntryInfoCompleteForOpenFile",
                     !.context = USER_INITIATED],
                "resource_metadata.GetEntryInfoByPath", p)]
    /\ UNCHANGED <<held, script, backgroundVars>>

\* DriveFileSystem::OpenFile
OpenFile(r, p) ==
    /\ Available(r)
    /\ LET rq == [NewRequest("OpenFile", p) EXCEPT
                      !.was_open_at_call = (p \in open_files_)]
       IN  IF p \in open_files_
           THEN /\ req' = [req EXCEPT ![r] =
                      [rq EXCEPT !.pc = "PostedCallback",
                                 !.result = ErrorResult(DRIVE_FILE_ERROR_IN_USE)]]
                /\ UNCHANGED open_files_
           ELSE /\ open_files_' = open_files_ \cup {p}
                /\ req' = [req EXCEPT ![r] =
                      Call([rq EXCEPT
                                !.pc = "OnGetEntryInfoCompleteForOpenFile",
                                !.context = USER_INITIATED],
                           "resource_metadata.GetEntryInfoByPath", p)]
    /\ UNCHANGED <<held, script, backgroundVars>>

(***************************************************************************)
(* CloseFile                                                               *)
(***************************************************************************)
\* CloseFileFinalize without the erase.
CloseFileFinalize_KeepsPath(rq, open, result) ==
    [rq |-> RunUserCallback(rq, open, ErrorResult(result)), open |-> open]

\* DriveFileSystem::CloseFileFinalize
CloseFileFinalize(rq, open, result) ==
    LET open2 == open \ {rq.path}
    IN  [rq |-> RunUserCallback(rq, open2, ErrorResult(result)),
         open |-> open2]

\* CloseFileAfterGetEntryInfo running the caller's callback itself on an
\* error, instead of the bound CloseFileFinalize.
CloseFileAfterGetEntryInfo_ErrorSkipsFinalize(rq, open, reply) ==
    LET error == IF reply.entry # NullEntry
                    /\ ~has_file_specific_info(reply.entry)
                 THEN DRIVE_FILE_ERROR_NOT_FOUND
                 ELSE reply.error
    IN  IF error # DRIVE_FILE_OK
        THEN [rq |-> RunUserCallback(rq, open, ErrorResult(error)),
              open |-> open]
        ELSE [rq |-> Call([rq EXCEPT !.pc = "CloseFileFinalize",
                                     !.entry_proto = reply.entry],
                          "cache.CommitDirty", reply.entry.file_md5),
              open |-> open]

\* DriveFileSystem::CloseFileAfterGetEntryInfo
CloseFileAfterGetEntryInfo(rq, open, reply) ==
    LET error == IF reply.entry # NullEntry
                    /\ ~has_file_specific_info(reply.entry)
                 THEN DRIVE_FILE_ERROR_NOT_FOUND
                 ELSE reply.error
    IN  IF error # DRIVE_FILE_OK
        THEN CloseFileFinalize(rq, open, error)
        ELSE [rq |-> Call([rq EXCEPT !.pc = "CloseFileFinalize",
                                     !.entry_proto = reply.entry],
                          "cache.CommitDirty", reply.entry.file_md5),
              open |-> open]

\* CloseFile without the open_files_ check.
CloseFile_NoOpenCheck(r, p) ==
    /\ Available(r)
    /\ req' = [req EXCEPT ![r] =
           Call([NewRequest("CloseFile", p) EXCEPT
                     !.was_open_at_call = (p \in open_files_),
                     !.pc = "CloseFileAfterGetEntryInfo"],
                "resource_metadata.GetEntryInfoByPath", p)]
    /\ UNCHANGED <<open_files_, held, script, backgroundVars>>

\* DriveFileSystem::CloseFile
CloseFile(r, p) ==
    /\ Available(r)
    /\ LET rq == [NewRequest("CloseFile", p) EXCEPT
                      !.was_open_at_call = (p \in open_files_)]
       IN  IF p \notin open_files_
           THEN req' = [req EXCEPT ![r] =
                    [rq EXCEPT !.pc = "PostedCallback",
                               !.result = ErrorResult(DRIVE_FILE_ERROR_NOT_FOUND)]]
           ELSE req' = [req EXCEPT ![r] =
                    Call([rq EXCEPT !.pc = "CloseFileAfterGetEntryInfo"],
                         "resource_metadata.GetEntryInfoByPath", p)]
    /\ UNCHANGED <<open_files_, held, script, backgroundVars>>

(***************************************************************************)
(* CreateFile                                                              *)
(***************************************************************************)
\* OnGetEntryInfoForCreateFile without the hosted-document check.
OnGetEntryInfoForCreateFile_AcceptsHosted(rq, open, reply) ==
    IF reply.error # DRIVE_FILE_ERROR_NOT_FOUND /\ reply.error # DRIVE_FILE_OK
    THEN [rq |-> RunUserCallback(rq, open, ErrorResult(reply.error)),
          open |-> open]
    ELSE IF reply.error = DRIVE_FILE_OK
    THEN IF rq.is_exclusive \/ is_directory(reply.entry)
         THEN [rq |-> RunUserCallback(rq, open,
                          ErrorResult(DRIVE_FILE_ERROR_EXISTS)),
               open |-> open]
         ELSE [rq |-> RunUserCallback(rq, open, ErrorResult(DRIVE_FILE_OK)),
               open |-> open]
    ELSE [rq |-> Call([rq EXCEPT !.pc = "TransferRegularFile"],
                      "drive_operations.TransferRegularFile", kEmptyFilePath),
          open |-> open]

\* OnGetEntryInfoForCreateFile taking every lookup error for "no entry".
OnGetEntryInfoForCreateFile_UploadsOnAnyError(rq, open, reply) ==
    IF reply.error = DRIVE_FILE_OK
    THEN IF rq.is_exclusive
            \/ is_directory(reply.entry)
            \/ is_hosted_document(reply.entry)
         THEN [rq |-> RunUserCallback(rq, open,
                          ErrorResult(DRIVE_FILE_ERROR_EXISTS)),
               open |-> open]
         ELSE [rq |-> RunUserCallback(rq, open, ErrorResult(DRIVE_FILE_OK)),
               open |-> open]
    ELSE [rq |-> Call([rq EXCEPT !.pc = "TransferRegularFile"],
                      "drive_operations.TransferRegularFile", kEmptyFilePath),
          open |-> open]

\* DriveFileSystem::OnGetEntryInfoForCreateFile
OnGetEntryInfoForCreateFile(rq, open, reply) ==
    IF reply.error # DRIVE_FILE_ERROR_NOT_FOUND /\ reply.error # DRIVE_FILE_OK
    THEN [rq |-> RunUserCallback(rq, open, ErrorResult(reply.error)),
          open |-> open]
    ELSE IF reply.error = DRIVE_FILE_OK
    THEN IF rq.is_exclusive
            \/ is_directory(reply.entry)
            \/ is_hosted_document(reply.entry)
         THEN [rq |-> RunUserCallback(rq, open,
                          ErrorResult(DRIVE_FILE_ERROR_EXISTS)),
               open |-> open]
         ELSE [rq |-> RunUserCallback(rq, open, ErrorResult(DRIVE_FILE_OK)),
               open |-> open]
    ELSE [rq |-> Call([rq EXCEPT !.pc = "TransferRegularFile"],
                      "drive_operations.TransferRegularFile", kEmptyFilePath),
          open |-> open]

\* DriveFileSystem::CreateFile
CreateFile(r, p, is_exclusive) ==
    /\ Available(r)
    /\ req' = [req EXCEPT ![r] =
           Call([NewRequest("CreateFile", p) EXCEPT
                     !.pc = "OnGetEntryInfoForCreateFile",
                     !.is_exclusive = is_exclusive],
                "resource_metadata.GetEntryInfoByPath", p)]
    /\ UNCHANGED <<open_files_, held, script, backgroundVars>>

(***************************************************************************)
(* GetFileByPath, GetFileByResourceId                                      *)
(***************************************************************************)
\* DriveFileSystem::OnGetEntryInfoCompleteForGetFileByPath
OnGetEntryInfoCompleteForGetFileByPath(rq, open, reply) ==
    IF reply.error # DRIVE_FILE_OK
    THEN [rq |-> RunUserCallback(rq, open,
                     FileResult(reply.error, "", "", REGULAR_FILE)),
          open |-> open]
    ELSE GetResolvedFileByPath(
             [rq EXCEPT !.entry_proto = reply.entry,
                        !.context = USER_INITIATED],
             open)

\* GetFileByResourceIdAfterGetEntry resolving the file as user initiated,
\* whatever context it was given.
GetFileByResourceIdAfterGetEntry_UserInitiated(rq, open, reply) ==
    IF reply.error # DRIVE_FILE_OK
    THEN [rq |-> RunUserCallback(rq, open,
                     FileResult(DRIVE_FILE_ERROR_NOT_FOUND, "", "",
                                REGULAR_FILE)),
          open |-> open]
    ELSE GetResolvedFileByPath([rq EXCEPT !.entry_proto = reply.entry,
                                          !.context = USER_INITIATED], open)

\* GetFileByResourceIdAfterGetEntry handing the lookup's error to the caller
\* unchanged, as the lookup by path does.
GetFileByResourceIdAfterGetEntry_PassesError(rq, open, reply) ==
    IF reply.error # DRIVE_FILE_OK
    THEN [rq |-> RunUserCallback(rq, open,
                     FileResult(reply.error, "", "", REGULAR_FILE)),
          open |-> open]
    ELSE GetResolvedFileByPath([rq EXCEPT !.entry_proto = reply.entry], open)

\* DriveFileSystem::GetFileByResourceIdAfterGetEntry
GetFileByResourceIdAfterGetEntry(rq, open, reply) ==
    IF reply.error # DRIVE_FILE_OK
    THEN [rq |-> RunUserCallback(rq, open,
                     FileResult(DRIVE_FILE_ERROR_NOT_FOUND, "", "",
                                REGULAR_FILE)),
          open |-> open]
    ELSE GetResolvedFileByPath([rq EXCEPT !.entry_proto = reply.entry], open)

\* DriveFileSystem::GetFileByPath
GetFileByPath(r, p) ==
    /\ Available(r)
    /\ req' = [req EXCEPT ![r] =
           Call([NewRequest("GetFileByPath", p) EXCEPT
                     !.pc = "OnGetEntryInfoCompleteForGetFileByPath"],
                "resource_metadata.GetEntryInfoByPath", p)]
    /\ UNCHANGED <<open_files_, held, script, backgroundVars>>

\* DriveFileSystem::GetFileByResourceId, for the resource at path |p|.
GetFileByResourceId(r, p, context) ==
    /\ Available(r)
    /\ req' = [req EXCEPT ![r] =
           Call([NewRequest("GetFileByResourceId", p) EXCEPT
                     !.pc = "GetFileByResourceIdAfterGetEntry",
                     !.context = context,
                     !.given_context = context],
                "resource_metadata.GetEntryInfoByResourceId", p)]
    /\ UNCHANGED <<open_files_, held, script, backgroundVars>>

(***************************************************************************)
(* The continuations as actions: a collaborator replies and the callback   *)
(* bound to the call runs to its end on the UI thread.                     *)
(***************************************************************************)
\* What the callers hold once the request |rq| has run its callback.
HeldAfter(rq) ==
    IF rq.pc = "done" /\ rq.op = "OpenFile"
    THEN [held EXCEPT ![rq.path] = HeldAfterOpen(@, rq.result.error)]
    ELSE IF rq.pc = "done" /\ rq.op = "CloseFile"
    THEN [held EXCEPT ![rq.path] = "closed"]
    ELSE held

\* The scripted caller logs each completion it is called back with.
Logged(rq) ==
    IF script.on /\ rq.pc = "done"
    THEN [script EXCEPT !.log = Append(@,
              [op |-> rq.op, error |-> rq.result.error, envok |-> rq.envok])]
    ELSE script

\* The request in slot |r| receives |reply| and becomes out.rq, and
\* open_files_ becomes out.open; |ok| tells whether the reply was a success.
Deliver(r, out, ok, reply) ==
    LET rq == [out.rq EXCEPT !.envok = @ /\ ok, !.replies = Append(@, reply)]
    IN  /\ req' = [req EXCEPT ![r] = rq]
        /\ open_files_' = out.open
        /\ held' = HeldAfter(rq)
        /\ script' = Logged(rq)
        /\ UNCHANGED backgroundVars

\* The task OpenFile and CloseFile post to the message loop to reject a call:
\* base::Bind(callback, error), run later.
RunPostedCallback(r) ==
    /\ req[r].pc = "PostedCallback"
    /\ LET rq == RunUserCallback(req[r], open_files_, req[r].result)
       IN  /\ req' = [req EXCEPT ![r] = rq]
           /\ script' = Logged(rq)
    /\ UNCHANGED <<open_files_, held, backgroundVars>>

EntryInfoReply(callee, reply) ==
    <<callee, reply.error, reply.entry.kind, reply.entry.file_md5>>

ErrorReply(callee, error) == <<callee, error, "", "">>

IsRegularFile(e) == e.kind = "file" /\ e.file_md5 # ""

GetEntryInfoForOpenFileReply(r) ==
    /\ req[r].pc = "OnGetEntryInfoCompleteForOpenFile"
    /\ \E reply \in FirstGetEntryInfoReplies :
           Deliver(r, OnGetEntryInfoCompleteForOpenFile(req[r], open_files_, reply),
                   reply.error = DRIVE_FILE_OK /\ IsRegularFile(reply.entry),
                   EntryInfoReply("resource_metadata.GetEntryInfoByPath", reply))

MarkDirtyForOpenFileReply(r) ==
    /\ req[r].pc = "OnMarkDirtyInCacheCompleteForOpenFile"
    /\ \E error \in FileErrorReplies :
           Deliver(r, OnMarkDirtyInCacheCompleteForOpenFile(req[r], open_files_, error),
                   error = DRIVE_FILE_OK,
                   ErrorReply("cache.MarkDirty", error))

GetFileForOpenFileReply(r) ==
    /\ req[r].pc = "OnOpenFileFinished"
    /\ \E error \in CacheGetFileReplies :
           Deliver(r, OnOpenFileFinished(req[r], open_files_, error,
                          IF error = DRIVE_FILE_OK
                          THEN CacheFilePath(req[r].open_md5) ELSE ""),
                   error = DRIVE_FILE_OK,
                   ErrorReply("cache.GetFile", error))

GetEntryInfoForCloseFileReply(r) ==
    /\ req[r].pc = "CloseFileAfterGetEntryInfo"
    /\ \E reply \in GetEntryInfoReplies :
           Deliver(r, CloseFileAfterGetEntryInfo(req[r], open_files_, reply),
                   reply.error = DRIVE_FILE_OK
                   /\ has_file_specific_info(reply.entry),
                   EntryInfoReply("resource_metadata.GetEntryInfoByPath", reply))

CommitDirtyReply(r) ==
    /\ req[r].pc = "CloseFileFinalize"
    /\ \E error \in FileErrorReplies :
           Deliver(r, CloseFileFinalize(req[r], open_files_, error),
                   error = DRIVE_FILE_OK,
                   ErrorReply("cache.CommitDirty", error))

GetEntryInfoForCreateFileReply(r) ==
    /\ req[r].pc = "OnGetEntryInfoForCreateFile"
    /\ \E reply \in GetEntryInfoReplies :
           Deliver(r, OnGetEntryInfoForCreateFile(req[r], open_files_, reply),
                   reply.error \in {DRIVE_FILE_OK, DRIVE_FILE_ERROR_NOT_FOUND},
                   EntryInfoReply("resource_metadata.GetEntryInfoByPath", reply))

\* DriveOperations::TransferRegularFile ends and runs the caller's callback.
TransferRegularFileReply(r) ==
    /\ req[r].pc = "TransferRegularFile"
    /\ \E error \in FileErrorReplies :
           Deliver(r, [rq |-> RunUserCallback(req[r], open_files_,
                                  ErrorResult(error)),
                       open |-> open_files_],
                   error = DRIVE_FILE_OK,
                   ErrorReply("drive_operations.TransferRegularFile", error))

GetEntryInfoForGetFileByPathReply(r) ==
    /\ req[r].pc = "OnGetEntryInfoCompleteForGetFileByPath"
    /\ \E reply \in FirstGetEntryInfoReplies :
           Deliver(r, OnGetEntryInfoCompleteForGetFileByPath(req[r], open_files_, reply),
                   reply.error = DRIVE_FILE_OK,
                   EntryInfoReply("resource_metadata.GetEntryInfoByPath", reply))

GetEntryInfoForGetFileByResourceIdReply(r) ==
    /\ req[r].pc = "GetFileByResourceIdAfterGetEntry"
    /\ \E reply \in FirstGetEntryInfoReplies :
           Deliver(r, GetFileByResourceIdAfterGetEntry(req[r], open_files_, reply),
                   reply.error = DRIVE_FILE_OK,
                   EntryInfoReply("resource_metadata.GetEntryInfoByResourceId",
                                  reply))

\* CreateDocumentJsonFileOnBlockingPool: |created| is the result of
\* file_util::CreateTemporaryFileInDir, |written| says that WriteFile wrote
\* the whole document.
CreateDocumentJsonFileOnBlockingPool(created, written) ==
    IF created /\ written THEN DRIVE_FILE_OK ELSE DRIVE_FILE_ERROR_FAILED

CreateDocumentJsonFileReply(r) ==
    /\ req[r].pc = "GetResolvedFileByPathAfterCreateDocumentJsonFile"
    /\ \E created, written \in BOOLEAN :
         LET error == CreateDocumentJsonFileOnBlockingPool(created, written)
         IN
           Deliver(r, GetResolvedFileByPathAfterCreateDocumentJsonFile(
                          req[r], open_files_, error),
                   error = DRIVE_FILE_OK,
                   ErrorReply("blocking_pool.CreateDocumentJsonFile", error))

\* GetFileFromCacheReply coalescing the runs of one path: on a miss, when
\* another request for the path is already past its own miss, the request
\* makes no call of its own and waits at the stage the other one waits at.
GetFileFromCacheReply_Coalesced(r) ==
    /\ req[r].pc = "GetResolvedFileByPathAfterGetFileFromCache"
    /\ \E error \in CacheGetFileReplies :
           LET others == {q \in Slots \ {r} :
                              /\ req[q].path = req[r].path
                              /\ "scheduler.GetResourceEntry" \in Callees(req[q])
                              /\ req[q].pc # "done"}
           IN  IF error # DRIVE_FILE_OK /\ others # {}
               THEN LET q == CHOOSE q \in others : TRUE
                    IN  Deliver(r, [rq |-> [req[r] EXCEPT
                                                !.pc = req[q].pc,
                                                !.entry_proto = req[q].entry_proto],
                                    open |-> open_files_],
                                TRUE,
                                ErrorReply("cache.GetFile", error))
               ELSE Deliver(r, GetResolvedFileByPathAfterGetFileFromCache(
                                   req[r], open_files_, error),
                            TRUE,
                            ErrorReply("cache.GetFile", error))

GetFileFromCacheReply(r) ==
    /\ req[r].pc = "GetResolvedFileByPathAfterGetFileFromCache"
    /\ \E error \in CacheGetFileReplies :
           Deliver(r, GetResolvedFileByPathAfterGetFileFromCache(
                          req[r], open_files_, error),
                   TRUE,
                   ErrorReply("cache.GetFile", error))

GetResourceEntryReply(r) ==
    /\ req[r].pc = "GetResolvedFileByPathAfterGetResourceEntry"
    /\ \E reply \in GetResourceEntryReplies :
           Deliver(r, GetResolvedFileByPathAfterGetResourceEntry(
                          req[r], open_files_, reply),
                   reply.status = "HTTP_SUCCESS" /\ reply.download_url # "",
                   <<"scheduler.GetResourceEntry", reply.status,
                     reply.download_url, "">>)

RefreshEntryReply(r) ==
    /\ req[r].pc = "GetResolvedFileByPathAfterRefreshEntry"
    /\ \E reply \in RefreshEntryReplies :
           Deliver(r, GetResolvedFileByPathAfterRefreshEntry(
                          req[r], open_files_, reply),
                   reply.error = DRIVE_FILE_OK,
                   EntryInfoReply("resource_metadata.RefreshEntry", reply))

FreeDiskSpaceReply(r) ==
    /\ req[r].pc = "GetResolvedFileByPathAfterFreeDiskSpace"
    /\ \E has_enough_space \in BOOLEAN :
           Deliver(r, GetResolvedFileByPathAfterFreeDiskSpace(
                          req[r], open_files_, has_enough_space),
                   has_enough_space,
                   <<"cache.FreeDiskSpaceIfNeededFor",
                     BoolStr(has_enough_space), "", "">>)

CreateTemporaryFileReply(r) ==
    /\ req[r].pc = "GetResolveFileByPathAfterCreateTemporaryFile"
    /\ \E success \in BOOLEAN :
           Deliver(r, GetResolveFileByPathAfterCreateTemporaryFile(
                          req[r], open_files_, success),
                   success,
                   <<"blocking_pool.CreateTemporaryFileInDir",
                     BoolStr(success), "", "">>)

DownloadFileReply(r) ==
    /\ req[r].pc = "GetResolvedFileByPathAfterDownloadFile"
    /\ \E status \in GDataErrorCodes :
           Deliver(r, GetResolvedFileByPathAfterDownloadFile(
                          req[r], open_files_, status),
                   status = "HTTP_SUCCESS",
                   <<"scheduler.DownloadFile", status, "", "">>)

\* DriveCache::GetCacheEntry replies to the lookup a cancelled download made;
\* the request itself has run its callback by then.
GetCacheEntryForCancelReply(r) ==
    /\ req[r].cancel = "lookup"
    /\ \E success \in BOOLEAN, is_pinned \in BOOLEAN :
           /\ (is_pinned => success)
           /\ req' = [req EXCEPT ![r] =
                  [GetResolvedFileByPathAfterGetCacheEntryForCancel(
                       @, success, is_pinned)
                   EXCEPT !.replies = Append(@,
                       <<"cache.GetCacheEntry", BoolStr(success),
                         BoolStr(is_pinned), "">>)]]
    /\ UNCHANGED <<open_files_, held, script, backgroundVars>>

StoreReply(r) ==
    /\ req[r].pc = "GetResolvedFileByPathAfterStore"
    /\ \E error \in FileErrorReplies :
           Deliver(r, GetResolvedFileByPathAfterStore(req[r], open_files_, error),
                   error = DRIVE_FILE_OK,
                   ErrorReply("cache.Store", error))

GetFileAfterStoreReply(r) ==
    /\ req[r].pc = "GetResolvedFileByPathAfterGetFile"
    /\ \E error \in CacheGetFileReplies :
           Deliver(r, GetResolvedFileByPathAfterGetFile(req[r], open_files_, error),
                   error = DRIVE_FILE_OK,
                   ErrorReply("cache.GetFile", error))

(***************************************************************************)
(* Polling for updates: update_timer_, CheckForUpdates, Reload             *)
(***************************************************************************)
kFastPollingIntervalInSec == 60
kSlowPollingIntervalInSec == 300

\* The clock is followed up to this time, in seconds.
MaxTime == 420

\* The number of callbacks that can wait for one load of the loader.
MaxQueued == 2

\* The number of resource_metadata_->Reset calls that can wait for their reply.
MaxResets == 1

\* ChangeListLoader is not part of drive_file_system.cc; its states are
\* Unloaded, Loading (a full load is in flight), Loaded and Refreshing (a
\* delta load is in flight).  |loads| counts the loads in flight, |pending|
\* holds the callbacks waiting for the load in flight and |ran| the callbacks
\* the loader ran when its last load ended.
NullChangeListLoader ==
    [exists |-> FALSE, state |-> "Unloaded", loads |-> 0, pending |-> <<>>,
     ran |-> <<>>]

NewChangeListLoader ==
    [exists |-> TRUE, state |-> "Unloaded", loads |-> 0, pending |-> <<>>,
     ran |-> <<>>]

loaded(loader) == loader.state \in {"Loaded", "Refreshing"}

refreshing(loader) == loader.state = "Refreshing"

\* Starts a load although one is in flight.
LoadFromServerIfNeeded_StartsAnother(loader, callback) ==
    [loader EXCEPT !.state = IF loaded(loader) THEN "Refreshing" ELSE "Loading",
                   !.loads = @ + 1,
                   !.pending = Append(@, callback)]

\* ChangeListLoader::LoadFromServerIfNeeded: a request made while a load is
\* in flight waits for that load; otherwise a load (full when nothing is
\* loaded, delta otherwise) is started.
LoadFromServerIfNeeded(loader, callback) ==
    IF loader.loads > 0
    THEN [loader EXCEPT !.pending = Append(@, callback)]
    ELSE [loader EXCEPT
              !.state = IF loaded(loader) THEN "Refreshing" ELSE "Loading",
              !.loads = @ + 1,
              !.pending = Append(@, callback)]

\* ChangeListLoader::LoadIfNeeded asking the server whatever is loaded.
ChangeListLoaderLoadIfNeeded_AlwaysLoads(loader, satisfied, callback) ==
    LoadFromServerIfNeeded(loader, callback)

\* ChangeListLoader::LoadIfNeeded: nothing to do when the tree is loaded and
\* the requested directory is known as of the requested changestamp.
ChangeListLoaderLoadIfNeeded(loader, satisfied, callback) ==
    IF loaded(loader) /\ satisfied
    THEN loader
    ELSE LoadFromServerIfNeeded(loader, callback)

\* The loader after its load in flight has ended with |error|: the
\* specification of the loader names Loaded as the only state that follows
\* Loading and Refreshing; |error| goes to the waiting callbacks.
AfterLoadCompleted(loader, error) ==
    [loader EXCEPT
         !.state = "Loaded",
         !.loads = @ - 1,
         !.pending = <<>>,
         !.ran = loader.pending]

\* An interval that ignores the push notification flag.
IntervalFor_AlwaysFast(enabled) == kFastPollingIntervalInSec

\* The polling interval SetPushNotificationEnabled chooses.
IntervalFor(enabled) ==
    IF enabled THEN kSlowPollingIntervalInSec ELSE kFastPollingIntervalInSec

StoppedTimer == [running |-> FALSE, delay |-> 0, desired_run_time |-> 0]

NoTick == [fired |-> FALSE, time |-> 0, state |-> "Unloaded", exists |-> FALSE]

InitPolling ==
    /\ now = 0
    /\ update_timer_ = StoppedTimer
    /\ polling_interval_sec_ = kFastPollingIntervalInSec
    /\ push_notification_enabled_ = FALSE
    /\ last_update_check_time_ = 0
    /\ last_update_check_error_ = DRIVE_FILE_OK
    /\ change_list_loader_ = NullChangeListLoader
    /\ resets_pending = 0
    /\ last_tick = NoTick

Initialize ==
    /\ ~change_list_loader_.exists
    /\ change_list_loader_' = NewChangeListLoader
    /\ UNCHANGED <<fsVars, treeVars, searchVars, now, update_timer_, polling_interval_sec_,
                   push_notification_enabled_, last_update_check_time_,
                   last_update_check_error_, resets_pending, last_tick>>

Reload ==
    /\ resets_pending < MaxResets
    /\ resets_pending' = resets_pending + 1
    /\ UNCHANGED <<fsVars, treeVars, searchVars, now, update_timer_, polling_interval_sec_,
                   push_notification_enabled_, last_update_check_time_,
                   last_update_check_error_, change_list_loader_, last_tick>>

\* SetupChangeListLoader replaces the loader, and the load is requested from
\* the new one.
ReloadAfterReset ==
    /\ resets_pending > 0
    /\ resets_pending' = resets_pending - 1
    /\ change_list_loader_' =
           LoadFromServerIfNeeded(NewChangeListLoader, "OnUpdateChecked")
    /\ UNCHANGED <<fsVars, treeVars, searchVars, now, update_timer_, polling_interval_sec_,
                   push_notification_enabled_, last_update_check_time_,
                   last_update_check_error_, last_tick>>

\* Requests a refresh whatever the loader is doing.
CheckForUpdates_IgnoresRefreshing ==
    /\ change_list_loader_' =
           IF change_list_loader_.exists /\ loaded(change_list_loader_)
           THEN LoadFromServerIfNeeded(change_list_loader_, "OnUpdateChecked")
           ELSE change_list_loader_
    /\ UNCHANGED <<last_update_check_time_, last_update_check_error_>>

CheckForUpdates ==
    /\ change_list_loader_' =
           IF /\ change_list_loader_.exists
              /\ loaded(change_list_loader_)
              /\ ~refreshing(change_list_loader_)
           THEN LoadFromServerIfNeeded(change_list_loader_, "OnUpdateChecked")
           ELSE change_list_loader_
    /\ UNCHANGED <<last_update_check_time_, last_update_check_error_>>

OnUpdateChecked(error) ==
    /\ last_update_check_time_' = now
    /\ last_update_check_error_' = error

StartPolling ==
    /\ ~update_timer_.running
    /\ update_timer_' = [running |-> TRUE,
                         delay |-> polling_interval_sec_,
                         desired_run_time |-> now + polling_interval_sec_]
    /\ UNCHANGED <<fsVars, treeVars, searchVars, now, polling_interval_sec_,
                   push_notification_enabled_, last_update_check_time_,
                   last_update_check_error_, change_list_loader_,
                   resets_pending, last_tick>>

StopPolling ==
    /\ update_timer_' = IF update_timer_.running THEN StoppedTimer
                        ELSE update_timer_
    /\ UNCHANGED <<fsVars, treeVars, searchVars, now, polling_interval_sec_,
                   push_notification_enabled_, last_update_check_time_,
                   last_update_check_error_, change_list_loader_,
                   resets_pending, last_tick>>

SetPushNotificationEnabled(enabled) ==
    /\ push_notification_enabled_' = enabled
    /\ polling_interval_sec_' = IntervalFor(enabled)
    /\ UNCHANGED <<fsVars, treeVars, searchVars, now, update_timer_, last_update_check_time_,
                   last_update_check_error_, change_list_loader_,
                   resets_pending, last_tick>>

\* DriveFileSystem::LoadIfNeeded, as the file operations call it.
LoadIfNeeded(satisfied) ==
    /\ change_list_loader_.exists
    /\ Len(change_list_loader_.pending) < MaxQueued
    /\ change_list_loader_' =
           ChangeListLoaderLoadIfNeeded(change_list_loader_, satisfied,
                                        "callback")
    /\ UNCHANGED <<fsVars, treeVars, searchVars, now, update_timer_, polling_interval_sec_,
                   push_notification_enabled_, last_update_check_time_,
                   last_update_check_error_, resets_pending, last_tick>>

\* The repeating update_timer_ fires at its desired run time: it runs its
\* task, CheckForUpdates, and schedules the next run one delay later.
UpdateTimerFired ==
    /\ update_timer_.running
    /\ now = update_timer_.desired_run_time
    /\ update_timer_' = [update_timer_ EXCEPT
                             !.desired_run_time = now + update_timer_.delay]
    /\ last_tick' = [fired |-> TRUE, time |-> now,
                     state |-> change_list_loader_.state,
                     exists |-> change_list_loader_.exists]
    /\ CheckForUpdates
    /\ UNCHANGED <<fsVars, treeVars, searchVars, now, polling_interval_sec_,
                   push_notification_enabled_, resets_pending>>

\* The load in flight ends and the loader runs the callbacks waiting for it.
LoadCompleted(error) ==
    /\ change_list_loader_.exists
    /\ change_list_loader_.loads > 0
    /\ change_list_loader_' = AfterLoadCompleted(change_list_loader_, error)
    /\ IF \E i \in 1..Len(change_list_loader_.pending) :
              change_list_loader_.pending[i] = "OnUpdateChecked"
       THEN OnUpdateChecked(error)
       ELSE UNCHANGED <<last_update_check_time_, last_update_check_error_>>
    /\ UNCHANGED <<fsVars, treeVars, searchVars, now, update_timer_, polling_interval_sec_,
                   push_notification_enabled_, resets_pending, last_tick>>

\* Time passes, no further than the next run of a running timer.
AdvanceClock ==
    /\ now + kFastPollingIntervalInSec <= MaxTime
    /\ update_timer_.running =>
           now + kFastPollingIntervalInSec <= update_timer_.desired_run_time
    /\ now' = now + kFastPollingIntervalInSec
    /\ UNCHANGED <<fsVars, treeVars, searchVars, update_timer_, polling_interval_sec_,
                   push_notification_enabled_, last_update_check_time_,
                   last_update_check_error_, change_list_loader_,
                   resets_pending, last_tick>>

(***************************************************************************)
(* The entry tree and the application of a ChangeBatch.  The code that     *)
(* applies change lists is not part of drive_file_system.cc; it is         *)
(* modelled as the specification describes it: deletions first, then the   *)
(* entries in batch order, an entry whose parent is not in the tree being  *)
(* deferred to the next pass over the batch.                               *)
(***************************************************************************)
Root == "root"

NonRootIds == {"a", "b", "c"}

EntryIds == {Root} \cup NonRootIds

\* The longest ChangeBatch.
MaxBatch == 3

\* The tree is its set of edges <<parent, child>>.
Present(t, id) == id = Root \/ \E e \in t : e[2] = id

Parents(t, id) == {e[1] : e \in {f \in t : f[2] = id}}

\* The entries reached from the entries of |s| in at most |n| steps down.
RECURSIVE Below(_, _, _)
Below(t, s, n) ==
    IF n = 0 THEN s
    ELSE Below(t, s \cup {e[2] : e \in {f \in t : f[1] \in s}}, n - 1)

\* Every entry of the tree has exactly one parent and hangs, through its
\* parents, under the root: no entry without its parent, no cycle.
WellFormed(t) ==
    /\ \A id \in NonRootIds : Present(t, id) => Cardinality(Parents(t, id)) = 1
    /\ \A e \in t : e[1] \in Below(t, {Root}, Cardinality(NonRootIds))

Updated(id, parent) == [id |-> id, deleted |-> FALSE, parent |-> parent]

Deleted(id) == [id |-> id, deleted |-> TRUE, parent |-> ""]

Updates ==
    {Deleted(id) : id \in NonRootIds} \cup
    {Updated(id, p) : id \in NonRootIds, p \in EntryIds}

ChangeBatches == UNION {[1..n -> Updates] : n \in 1..MaxBatch}

\* The tree the remote store has after the changes of |b|.
Override(t, b) ==
    {e \in t : \A i \in 1..Len(b) : b[i].id # e[2]} \cup
    {<<b[i].parent, b[i].id>> : i \in {j \in 1..Len(b) : ~b[j].deleted}}

\* A batch of the remote store names an entry once and describes a tree.
ValidBatch(t, b) ==
    /\ \A i, j \in 1..Len(b) : b[i].id = b[j].id => i = j
    /\ WellFormed(Override(t, b))

\* The tree without the entries |b| deletes and without what is below them.
ApplyDeletions(t, b) ==
    LET gone == Below(t, {b[i].id : i \in {j \in 1..Len(b) : b[j].deleted}},
                      Cardinality(NonRootIds))
    IN  {e \in t : e[1] \notin gone /\ e[2] \notin gone}

Attach(t, u) == {e \in t : e[2] # u.id} \cup {<<u.parent, u.id>>}

\* Attaches the entry whether or not its parent is in the tree.
ApplyEntry_NoParentCheck(t, later, u) ==
    [tree |-> Attach(t, u), deferred |-> later]

\* One entry of the batch: attached under its parent (moved there when it is
\* in the tree already), or deferred when the parent is not in the tree.
ApplyEntry(t, later, u) ==
    IF Present(t, u.parent)
    THEN [tree |-> Attach(t, u), deferred |-> later]
    ELSE [tree |-> t, deferred |-> Append(later, u)]

InitTree ==
    /\ tree = {}
    /\ feed = <<>>
    /\ todo = <<>>
    /\ deferred = <<>>
    /\ phase = "applied"
    /\ passes = 0

\* A delta ChangeBatch of the remote store arrives.
ReceiveChangeBatch(b) ==
    /\ phase = "applied"
    /\ ValidBatch(tree, b)
    /\ feed' = b
    /\ phase' = "deletions"
    /\ todo' = <<>>
    /\ deferred' = <<>>
    /\ passes' = 0
    /\ UNCHANGED <<fsVars, pollVars, searchVars, tree>>

ApplyChangeBatchDeletions ==
    /\ phase = "deletions"
    /\ tree' = ApplyDeletions(tree, feed)
    /\ todo' = SelectSeq(feed, LAMBDA u : ~u.deleted)
    /\ phase' = "entries"
    /\ passes' = 1
    /\ UNCHANGED <<fsVars, pollVars, searchVars, feed, deferred>>

ApplyChangeBatchEntry ==
    /\ phase = "entries"
    /\ todo # <<>>
    /\ LET out == ApplyEntry(tree, deferred, Head(todo))
       IN  /\ tree' = out.tree
           /\ deferred' = out.deferred
    /\ todo' = Tail(todo)
    /\ UNCHANGED <<fsVars, pollVars, searchVars, feed, phase, passes>>

\* The pass is over: the deferred entries are gone through in a next pass.
NextChangeBatchPass ==
    /\ phase = "entries"
    /\ todo = <<>>
    /\ deferred # <<>>
    /\ todo' = deferred
    /\ deferred' = <<>>
    /\ passes' = passes + 1
    /\ UNCHANGED <<fsVars, pollVars, searchVars, tree, feed, phase>>

ChangeBatchApplied ==
    /\ phase = "entries"
    /\ todo = <<>>
    /\ deferred = <<>>
    /\ phase' = "applied"
    /\ UNCHANGED <<fsVars, pollVars, searchVars, tree, feed, todo, deferred, passes>>

(***************************************************************************)
(* AddUploadedFile and AddUploadedFileToCache                              *)
(***************************************************************************)
\* The replies of DriveResourceMetadata::AddEntry for an entry that goes to
\* |p|: the path of the added entry, or an error and no path.
AddEntryReplies(p) ==
    {[error |-> DRIVE_FILE_OK, file_path |-> p]}
    \cup {[error |-> x, file_path |-> ""] :
              x \in {DRIVE_FILE_ERROR_EXISTS, DRIVE_FILE_ERROR_FAILED}}

\* DriveFileSystem::AddUploadedFile, for an entry with content md5 |m| that
\* the metadata will add at |p|.
AddUploadedFile(r, p, m) ==
    /\ Available(r)
    /\ req' = [req EXCEPT ![r] =
           Call([NewRequest("AddUploadedFile", p) EXCEPT
                     !.pc = "AddUploadedFileToCache",
                     !.entry_proto = RegularFileEntry(m)],
                "resource_metadata.AddEntry", p)]
    /\ UNCHANGED <<open_files_, held, script, backgroundVars>>

\* AddUploadedFileToCache storing the content whatever AddEntry answered.
AddUploadedFileToCache_StoresAnyway(rq, open, reply) ==
    [rq |-> Call(Call([rq EXCEPT !.pc = "AddUploadedFileStore"],
                      "observers.OnDirectoryChanged", DirName(rq.path)),
                 "cache.Store", rq.entry_proto.file_md5),
     open |-> open]

\* DriveFileSystem::AddUploadedFileToCache
AddUploadedFileToCache(rq, open, reply) ==
    IF reply.error # DRIVE_FILE_OK
    THEN [rq |-> RunUserCallback(rq, open, ErrorResult(reply.error)),
          open |-> open]
    ELSE [rq |-> Call(Call([rq EXCEPT !.pc = "AddUploadedFileStore"],
                           "observers.OnDirectoryChanged",
                           DirName(reply.file_path)),
                      "cache.Store", rq.entry_proto.file_md5),
          open |-> open]

AddEntryReply(r) ==
    /\ req[r].pc = "AddUploadedFileToCache"
    /\ \E reply \in AddEntryReplies(req[r].path) :
           Deliver(r, AddUploadedFileToCache(req[r], open_files_, reply),
                   reply.error = DRIVE_FILE_OK,
                   <<"resource_metadata.AddEntry", reply.error,
                     reply.file_path, "">>)

\* cache_->Store runs the caller's callback with its status.
StoreUploadedFileReply(r) ==
    /\ req[r].pc = "AddUploadedFileStore"
    /\ \E error \in FileErrorReplies :
           Deliver(r, [rq |-> RunUserCallback(req[r], open_files_,
                                               ErrorResult(error)),
                       open |-> open_files_],
                   error = DRIVE_FILE_OK,
                   ErrorReply("cache.Store", error))

(***************************************************************************)
(* Search: DriveFileSystem::Search, OnSearch and AddToSearchResults         *)
(***************************************************************************)
\* The most entries in the ChangeList of a search.
MaxSearchEntries == 2

SearchEntryIds == {"a", "b"}

\* The ChangeLists change_list_loader_->SearchFromServer can hand to
\* OnSearch: up to MaxSearchEntries distinct entries.
SearchBatches ==
    {b \in UNION {[1..n -> SearchEntryIds] : n \in 0..MaxSearchEntries} :
         \A i, j \in 1..Len(b) : i # j => b[i] # b[j]}

NoSearchResult == [error |-> "", results |-> <<>>]

\* No search under way.  |pending| holds the indices of the entries whose
\* RefreshEntry callback has not run; |results| is the vector the callbacks
\* push to; |result| is what search_callback was run with, |runs| how often.
\* |completed_at_callback|, |unknown|, |checks| and |refreshes| record the
\* lookups that had completed when search_callback ran, the entries the
\* metadata did not know, the CheckForUpdates calls and the loads they
\* started; |wrote_after_pass| says a callback pushed to the vector after it
\* had been passed to the caller.
IdleSearch ==
    [pc |-> "idle", entries |-> <<>>, pending |-> {}, results |-> <<>>,
     runs |-> 0, result |-> NoSearchResult, completed_at_callback |-> {},
     unknown |-> {}, checks |-> 0, refreshes |-> 0,
     wrote_after_pass |-> FALSE]

InitSearch == search = IdleSearch

\* DriveFileSystem::Search
Search ==
    /\ search.pc \in {"idle", "done"}
    /\ search' = [IdleSearch EXCEPT !.pc = "OnSearch"]
    /\ UNCHANGED <<fsVars, pollVars, treeVars>>

\* DriveFileSystem::OnSearch, run by SearchFromServer with |error| and the
\* entries of its one ChangeList.
OnSearch(error, entries) ==
    /\ search.pc = "OnSearch"
    /\ search' =
           IF error # DRIVE_FILE_OK
           THEN [search EXCEPT !.pc = "done", !.runs = @ + 1,
                               !.result = [error |-> error, results |-> <<>>]]
           ELSE IF entries = <<>>
           THEN [search EXCEPT !.pc = "done", !.runs = @ + 1,
                               !.result = [error |-> DRIVE_FILE_OK,
                                           results |-> <<>>]]
           ELSE [search EXCEPT !.pc = "AddToSearchResults",
                               !.entries = entries,
                               !.pending = 1..Len(entries)]
    /\ UNCHANGED <<fsVars, pollVars, treeVars>>

\* What the caller finds in the vector it was given when a callback pushes
\* |id| to it later: the vector is the caller's by then, so the push is
\* seen (|alive|) or goes to memory the caller no longer reads.
ResultAfterPush(s, pushed, id, alive) ==
    IF pushed /\ s.runs > 0 /\ alive
    THEN [s.result EXCEPT !.results = Append(@, id)]
    ELSE s.result

\* The search record after the RefreshEntry callback of entry |i| ran with
\* |error|, |refreshed| saying whether its CheckForUpdates started a load;
\* |pushed| says whether the entry is pushed to the results.
AfterAddToSearchResults(s, i, error, pushed, checked, refreshed, alive) ==
    LET results == IF pushed THEN Append(s.results, s.entries[i])
                   ELSE s.results
        should_run_callback == (i = Len(s.entries))
        s1 == [s EXCEPT
                   !.pending = @ \ {i},
                   !.results = results,
                   !.result = ResultAfterPush(s, pushed, s.entries[i], alive),
                   !.wrote_after_pass = @ \/ (pushed /\ s.runs > 0),
                   !.unknown = IF error = DRIVE_FILE_ERROR_NOT_FOUND
                               THEN @ \cup {s.entries[i]} ELSE @,
                   !.checks = IF checked THEN @ + 1 ELSE @,
                   !.refreshes = IF refreshed THEN @ + 1 ELSE @,
                   !.pc = IF s.pending = {i} THEN "done" ELSE @]
    IN  IF should_run_callback
        THEN [s1 EXCEPT !.runs = @ + 1,
                        !.result = [error |-> DRIVE_FILE_OK,
                                    results |-> results],
                        !.completed_at_callback = 1..Len(s.entries) \ s1.pending]
        ELSE s1

\* A load is started by a CheckForUpdates made now.
StartsRefresh ==
    /\ change_list_loader_.exists
    /\ loaded(change_list_loader_)
    /\ ~refreshing(change_list_loader_)

\* AddToSearchResults returning an entry the metadata does not know with
\* the others, without a check for updates.
AddToSearchResults_KeepsUnknown(i, error, alive) ==
    /\ search.pc = "AddToSearchResults"
    /\ i \in search.pending
    /\ search' = AfterAddToSearchResults(search, i, error, TRUE, FALSE, FALSE,
                                         alive)
    /\ UNCHANGED <<fsVars, pollVars, treeVars>>

\* DriveFileSystem::AddToSearchResults, the callback of the RefreshEntry of
\* entry |i| of the batch, run with |error|.
AddToSearchResults(i, error, alive) ==
    /\ search.pc = "AddToSearchResults"
    /\ i \in search.pending
    /\ IF error = DRIVE_FILE_OK
       THEN /\ search' = AfterAddToSearchResults(search, i, error, TRUE,
                                                 FALSE, FALSE, alive)
            /\ UNCHANGED pollVars
       ELSE /\ search' = AfterAddToSearchResults(search, i, error, FALSE,
                                                 TRUE, StartsRefresh, alive)
            /\ CheckForUpdates
            /\ UNCHANGED <<now, update_timer_, polling_interval_sec_,
                           push_notification_enabled_, resets_pending,
                           last_tick>>
    /\ UNCHANGED <<fsVars, treeVars>>

\* The replies of DriveResourceMetadata::RefreshEntry to OnSearch: any other
\* error is NOTREACHED in AddToSearchResults.
RefreshEntryForSearchReplies == {DRIVE_FILE_OK, DRIVE_FILE_ERROR_NOT_FOUND}

(***************************************************************************)
(* Specifications                                                          *)
(***************************************************************************)
InitRequests ==
    /\ open_files_ = {}
    /\ req = [r \in Slots |-> IdleRequest]
    /\ held = [p \in Paths |-> "closed"]

Init ==
    /\ InitRequests
    /\ script = [on |-> FALSE, log |-> <<>>]
    /\ InitPolling
    /\ InitTree
    /\ InitSearch

\* OpenFile and CloseFile calls and their continuations.
NextOpenClose ==
    \E r \in Slots :
        \/ \E p \in Paths : OpenFile(r, p)
        \/ \E p \in Paths : CloseFile(r, p)
        \/ RunPostedCallback(r)
        \/ GetEntryInfoForOpenFileReply(r)
        \/ MarkDirtyForOpenFileReply(r)
        \/ GetFileForOpenFileReply(r)
        \/ GetEntryInfoForCloseFileReply(r)
        \/ CommitDirtyReply(r)
        \/ GetFileFromCacheReply(r)
        \/ GetResourceEntryReply(r)
        \/ RefreshEntryReply(r)
        \/ FreeDiskSpaceReply(r)
        \/ CreateTemporaryFileReply(r)
        \/ DownloadFileReply(r)
        \/ GetCacheEntryForCancelReply(r)
        \/ StoreReply(r)
        \/ GetFileAfterStoreReply(r)

SpecOpenClose == Init /\ [][NextOpenClose]_vars

\* GetFileByPath and GetFileByResourceId calls and their continuations.
NextGetFile ==
    \E r \in Slots :
        \/ \E p \in Paths : GetFileByPath(r, p)
        \/ \E p \in Paths, c \in ResourceIdContexts :
               GetFileByResourceId(r, p, c)
        \/ GetEntryInfoForGetFileByPathReply(r)
        \/ GetEntryInfoForGetFileByResourceIdReply(r)
        \/ CreateDocumentJsonFileReply(r)
        \/ GetFileFromCacheReply(r)
        \/ GetResourceEntryReply(r)
        \/ RefreshEntryReply(r)
        \/ FreeDiskSpaceReply(r)
        \/ CreateTemporaryFileReply(r)
        \/ DownloadFileReply(r)
        \/ GetCacheEntryForCancelReply(r)
        \/ StoreReply(r)
        \/ GetFileAfterStoreReply(r)

SpecGetFile == Init /\ [][NextGetFile]_vars

\* CreateFile calls and their continuations.
NextCreateFile ==
    \E r \in Slots :
        \/ \E p \in Paths, x \in BOOLEAN : CreateFile(r, p, x)
        \/ GetEntryInfoForCreateFileReply(r)
        \/ TransferRegularFileReply(r)

SpecCreateFile == Init /\ [][NextCreateFile]_vars

(***************************************************************************)
(* The end-to-end scenario: one caller that awaits each call before the    *)
(* next: OpenFile(p), OpenFile(p) again once the first has succeeded,      *)
(* CloseFile(p), OpenFile(p).                                              *)
(***************************************************************************)
ScenarioPath == "/a.txt"

\* The scripted caller has been called back for every call it made.
Awaited == \A q \in Slots : req[q].pc \in {"idle", "done"}

ScenarioFirstOpen(r) ==
    /\ script.on /\ Awaited /\ Len(script.log) = 0
    /\ OpenFile(r, ScenarioPath)

ScenarioSecondOpen(r) ==
    /\ script.on /\ Awaited /\ Len(script.log) = 1
    /\ script.log[1].error = DRIVE_FILE_OK
    /\ OpenFile(r, ScenarioPath)

ScenarioClose(r) ==
    /\ script.on /\ Awaited /\ Len(script.log) = 2
    /\ CloseFile(r, ScenarioPath)

ScenarioThirdOpen(r) ==
    /\ script.on /\ Awaited /\ Len(script.log) = 3
    /\ OpenFile(r, ScenarioPath)

InitScenario ==
    /\ InitRequests
    /\ script = [on |-> TRUE, log |-> <<>>]
    /\ InitPolling
    /\ InitTree
    /\ InitSearch

NextScenario ==
    \E r \in Slots :
        \/ ScenarioFirstOpen(r)
        \/ ScenarioSecondOpen(r)
        \/ ScenarioClose(r)
        \/ ScenarioThirdOpen(r)
        \/ RunPostedCallback(r)
        \/ GetEntryInfoForOpenFileReply(r)
        \/ MarkDirtyForOpenFileReply(r)
        \/ GetFileForOpenFileReply(r)
        \/ GetEntryInfoForCloseFileReply(r)
        \/ CommitDirtyReply(r)
        \/ GetFileFromCacheReply(r)
        \/ GetResourceEntryReply(r)
        \/ RefreshEntryReply(r)
        \/ FreeDiskSpaceReply(r)
        \/ CreateTemporaryFileReply(r)
        \/ DownloadFileReply(r)
        \/ GetCacheEntryForCancelReply(r)
        \/ StoreReply(r)
        \/ GetFileAfterStoreReply(r)

SpecScenario == InitScenario /\ [][NextScenario]_vars

(***************************************************************************)
(* GetEntryInfoByPath and ReadDirectoryByPath                              *)
(***************************************************************************)
ResourceIds == {"id1", "id2"}
Changestamps == {"c1", "c2"}

\* The directories DriveResourceMetadata may know.
DirectoryProtos ==
    {[DirectoryEntry EXCEPT !.resource_id = i, !.changestamp = c] :
         i \in ResourceIds, c \in Changestamps}

\* The replies to the lookup that starts a ReadDirectoryByPath.
GetEntryInfoForReadDirectoryReplies ==
    {[error |-> DRIVE_FILE_OK, entry |-> e] :
         e \in DirectoryProtos \cup {RegularFileEntry(LocalMd5)}}
    \cup {[error |-> x, entry |-> NullEntry] :
              x \in {DRIVE_FILE_ERROR_NOT_FOUND, DRIVE_FILE_ERROR_FAILED}}

\* The replies of DriveResourceMetadata::ReadDirectoryByPath.
ReadDirectoryReplies ==
    {[error |-> DRIVE_FILE_OK, entries |-> "children"]}
    \cup {[error |-> x, entries |-> ""] :
              x \in {DRIVE_FILE_ERROR_NOT_FOUND,
                     DRIVE_FILE_ERROR_NOT_A_DIRECTORY}}

\* A call of LoadIfNeeded with DirectoryFetchInfo(resource_id, changestamp);
\* the empty DirectoryFetchInfo() has an empty resource id.
CallLoadIfNeeded(rq, resource_id, changestamp) ==
    [rq EXCEPT !.calls = Append(@, <<"change_list_loader.LoadIfNeeded",
                                     resource_id, changestamp>>)]

\* callback.Run(error, entry_proto) of a GetEntryInfoCallback
EntryInfoResult(error, entry) == [error |-> error, entry |-> entry]

\* callback.Run(error, hide_hosted_docs_, entries) of a
\* ReadDirectoryWithSettingCallback
ReadDirectoryResult(error, entries) == [error |-> error, entries |-> entries]

\* CheckLocalModificationAndRunAfterGetFileInfo reporting a failed probe of
\* the cache file as FAILED.
CheckLocalModificationAndRunAfterGetFileInfo_ReportsFailed(rq, open, get_file_info_result) ==
    IF ~get_file_info_result
    THEN [rq |-> RunUserCallback(rq, open,
                     EntryInfoResult(DRIVE_FILE_ERROR_FAILED, NullEntry)),
          open |-> open]
    ELSE [rq |-> RunUserCallback(rq, open,
                     EntryInfoResult(DRIVE_FILE_OK,
                         [rq.entry_proto EXCEPT !.size = "local file size"])),
          open |-> open]

\* DriveFileSystem::CheckLocalModificationAndRunAfterGetFileInfo
CheckLocalModificationAndRunAfterGetFileInfo(rq, open, get_file_info_result) ==
    IF ~get_file_info_result
    THEN [rq |-> RunUserCallback(rq, open,
                     EntryInfoResult(DRIVE_FILE_ERROR_NOT_FOUND, NullEntry)),
          open |-> open]
    ELSE [rq |-> RunUserCallback(rq, open,
                     EntryInfoResult(DRIVE_FILE_OK,
                         [rq.entry_proto EXCEPT !.size = "local file size"])),
          open |-> open]

\* DriveFileSystem::CheckLocalModificationAndRunAfterGetCacheFile
CheckLocalModificationAndRunAfterGetCacheFile(rq, open, error) ==
    IF error # DRIVE_FILE_OK
    THEN [rq |-> RunUserCallback(rq, open,
                     EntryInfoResult(DRIVE_FILE_OK, rq.entry_proto)),
          open |-> open]
    ELSE [rq |-> Call([rq EXCEPT
                           !.pc = "CheckLocalModificationAndRunAfterGetFileInfo"],
                      "blocking_pool.GetFileInfo", CacheFilePath(rq.entry_proto.file_md5)),
          open |-> open]

\* DriveFileSystem::CheckLocalModificationAndRunAfterGetCacheEntry
CheckLocalModificationAndRunAfterGetCacheEntry(rq, open, success, is_dirty) ==
    IF ~success \/ ~is_dirty
    THEN [rq |-> RunUserCallback(rq, open,
                     EntryInfoResult(DRIVE_FILE_OK, rq.entry_proto)),
          open |-> open]
    ELSE [rq |-> Call([rq EXCEPT
                           !.pc = "CheckLocalModificationAndRunAfterGetCacheFile"],
                      "cache.GetFile", rq.entry_proto.file_md5),
          open |-> open]

\* DriveFileSystem::CheckLocalModificationAndRun, on a request whose
\* entry_proto is the entry found.
CheckLocalModificationAndRun(rq, open) ==
    IF ~has_file_specific_info(rq.entry_proto)
       \/ is_hosted_document(rq.entry_proto)
    THEN [rq |-> RunUserCallback(rq, open,
                     EntryInfoResult(DRIVE_FILE_OK, rq.entry_proto)),
          open |-> open]
    ELSE [rq |-> Call([rq EXCEPT
                           !.pc = "CheckLocalModificationAndRunAfterGetCacheEntry"],
                      "cache.GetCacheEntry", rq.entry_proto.file_md5),
          open |-> open]

\* GetEntryInfoByPathAfterGetEntry2 asking for another load when the entry is
\* still not found.
GetEntryInfoByPathAfterGetEntry2_LoadsAgain(rq, open, reply) ==
    IF reply.error # DRIVE_FILE_OK
    THEN [rq |-> CallLoadIfNeeded(
                     [rq EXCEPT !.pc = "GetEntryInfoByPathAfterLoad"], "", ""),
          open |-> open]
    ELSE CheckLocalModificationAndRun(
             [rq EXCEPT !.entry_proto = reply.entry], open)

\* DriveFileSystem::GetEntryInfoByPathAfterGetEntry2
GetEntryInfoByPathAfterGetEntry2(rq, open, reply) ==
    IF reply.error # DRIVE_FILE_OK
    THEN [rq |-> RunUserCallback(rq, open,
                     EntryInfoResult(reply.error, NullEntry)),
          open |-> open]
    ELSE CheckLocalModificationAndRun(
             [rq EXCEPT !.entry_proto = reply.entry], open)

\* DriveFileSystem::GetEntryInfoByPathAfterLoad
GetEntryInfoByPathAfterLoad(rq, open, error) ==
    IF error # DRIVE_FILE_OK
    THEN [rq |-> RunUserCallback(rq, open, EntryInfoResult(error, NullEntry)),
          open |-> open]
    ELSE [rq |-> Call([rq EXCEPT !.pc = "GetEntryInfoByPathAfterGetEntry2"],
                      "resource_metadata.GetEntryInfoByPath", rq.path),
          open |-> open]

\* DriveFileSystem::GetEntryInfoByPathAfterGetEntry1
GetEntryInfoByPathAfterGetEntry1(rq, open, reply) ==
    IF reply.error = DRIVE_FILE_OK
    THEN CheckLocalModificationAndRun(
             [rq EXCEPT !.entry_proto = reply.entry], open)
    ELSE [rq |-> CallLoadIfNeeded(
                     [rq EXCEPT !.pc = "GetEntryInfoByPathAfterLoad"], "", ""),
          open |-> open]

\* DriveFileSystem::GetEntryInfoByPath
GetEntryInfoByPath(r, p) ==
    /\ Available(r)
    /\ req' = [req EXCEPT ![r] =
           Call([NewRequest("GetEntryInfoByPath", p) EXCEPT
                     !.pc = "GetEntryInfoByPathAfterGetEntry1"],
                "resource_metadata.GetEntryInfoByPath", p)]
    /\ UNCHANGED <<open_files_, held, script, backgroundVars>>

\* DriveFileSystem::ReadDirectoryByPathAfterRead
ReadDirectoryByPathAfterRead(rq, open, reply) ==
    IF reply.error # DRIVE_FILE_OK
    THEN [rq |-> RunUserCallback(rq, open,
                     ReadDirectoryResult(reply.error, "")),
          open |-> open]
    ELSE [rq |-> RunUserCallback(rq, open,
                     ReadDirectoryResult(DRIVE_FILE_OK, reply.entries)),
          open |-> open]

\* ReadDirectoryByPathAfterLoad reading the directory whatever the load
\* answered.
ReadDirectoryByPathAfterLoad_IgnoresError(rq, open, error) ==
    [rq |-> Call([rq EXCEPT !.pc = "ReadDirectoryByPathAfterRead"],
                 "resource_metadata.ReadDirectoryByPath", rq.path),
     open |-> open]

\* DriveFileSystem::ReadDirectoryByPathAfterLoad
ReadDirectoryByPathAfterLoad(rq, open, error) ==
    IF error # DRIVE_FILE_OK
    THEN [rq |-> RunUserCallback(rq, open, ReadDirectoryResult(error, "")),
          open |-> open]
    ELSE [rq |-> Call([rq EXCEPT !.pc = "ReadDirectoryByPathAfterRead"],
                      "resource_metadata.ReadDirectoryByPath", rq.path),
          open |-> open]

\* ReadDirectoryByPathAfterGetEntry asking for a load of everything, with the
\* empty DirectoryFetchInfo, for a known directory too.
ReadDirectoryByPathAfterGetEntry_EmptyFetchInfo(rq, open, reply) ==
    IF reply.error = DRIVE_FILE_OK /\ ~is_directory(reply.entry)
    THEN [rq |-> RunUserCallback(rq, open,
                     ReadDirectoryResult(DRIVE_FILE_ERROR_NOT_A_DIRECTORY, "")),
          open |-> open]
    ELSE [rq |-> CallLoadIfNeeded(
                     [rq EXCEPT !.pc = "ReadDirectoryByPathAfterLoad"], "", ""),
          open |-> open]

\* DriveFileSystem::ReadDirectoryByPathAfterGetEntry
ReadDirectoryByPathAfterGetEntry(rq, open, reply) ==
    IF reply.error # DRIVE_FILE_OK
    THEN [rq |-> CallLoadIfNeeded(
                     [rq EXCEPT !.pc = "ReadDirectoryByPathAfterLoad"], "", ""),
          open |-> open]
    ELSE IF ~is_directory(reply.entry)
    THEN [rq |-> RunUserCallback(rq, open,
                     ReadDirectoryResult(DRIVE_FILE_ERROR_NOT_A_DIRECTORY, "")),
          open |-> open]
    ELSE [rq |-> CallLoadIfNeeded(
                     [rq EXCEPT !.pc = "ReadDirectoryByPathAfterLoad"],
                     reply.entry.resource_id, reply.entry.changestamp),
          open |-> open]

\* DriveFileSystem::ReadDirectoryByPath
ReadDirectoryByPath(r, p) ==
    /\ Available(r)
    /\ req' = [req EXCEPT ![r] =
           Call([NewRequest("ReadDirectoryByPath", p) EXCEPT
                     !.pc = "ReadDirectoryByPathAfterGetEntry"],
                "resource_metadata.GetEntryInfoByPath", p)]
    /\ UNCHANGED <<open_files_, held, script, backgroundVars>>

\* The reply of a lookup as ReadDirectoryByPath sees it: with the resource id
\* and the changestamp of the directory.
DirectoryInfoReply(callee, reply) ==
    <<callee, reply.error, reply.entry.kind, reply.entry.resource_id,
      reply.entry.changestamp>>

GetEntry1ForGetEntryInfoReply(r) ==
    /\ req[r].pc = "GetEntryInfoByPathAfterGetEntry1"
    /\ \E reply \in FirstGetEntryInfoReplies :
           Deliver(r, GetEntryInfoByPathAfterGetEntry1(req[r], open_files_, reply),
                   reply.error = DRIVE_FILE_OK,
                   EntryInfoReply("resource_metadata.GetEntryInfoByPath", reply))

\* ChangeListLoader::LoadIfNeeded runs the callback of GetEntryInfoByPath.
LoadForGetEntryInfoReply(r) ==
    /\ req[r].pc = "GetEntryInfoByPathAfterLoad"
    /\ \E error \in FileErrorReplies :
           Deliver(r, GetEntryInfoByPathAfterLoad(req[r], open_files_, error),
                   error = DRIVE_FILE_OK,
                   ErrorReply("change_list_loader.LoadIfNeeded", error))

GetEntry2ForGetEntryInfoReply(r) ==
    /\ req[r].pc = "GetEntryInfoByPathAfterGetEntry2"
    /\ \E reply \in FirstGetEntryInfoReplies :
           Deliver(r, GetEntryInfoByPathAfterGetEntry2(req[r], open_files_, reply),
                   reply.error = DRIVE_FILE_OK,
                   EntryInfoReply("resource_metadata.GetEntryInfoByPath", reply))

GetCacheEntryForLocalModificationReply(r) ==
    /\ req[r].pc = "CheckLocalModificationAndRunAfterGetCacheEntry"
    /\ \E success \in BOOLEAN, is_dirty \in BOOLEAN :
           /\ (is_dirty => success)
           /\ Deliver(r, CheckLocalModificationAndRunAfterGetCacheEntry(
                             req[r], open_files_, success, is_dirty),
                      TRUE,
                      <<"cache.GetCacheEntry", BoolStr(success),
                        BoolStr(is_dirty), "">>)

GetCacheFileForLocalModificationReply(r) ==
    /\ req[r].pc = "CheckLocalModificationAndRunAfterGetCacheFile"
    /\ \E error \in CacheGetFileReplies :
           Deliver(r, CheckLocalModificationAndRunAfterGetCacheFile(
                          req[r], open_files_, error),
                   TRUE,
                   ErrorReply("cache.GetFile", error))

GetFileInfoReply(r) ==
    /\ req[r].pc = "CheckLocalModificationAndRunAfterGetFileInfo"
    /\ \E get_file_info_result \in BOOLEAN :
           Deliver(r, CheckLocalModificationAndRunAfterGetFileInfo(
                          req[r], open_files_, get_file_info_result),
                   get_file_info_result,
                   <<"blocking_pool.GetFileInfo",
                     BoolStr(get_file_info_result), "", "">>)

GetEntryForReadDirectoryReply(r) ==
    /\ req[r].pc = "ReadDirectoryByPathAfterGetEntry"
    /\ \E reply \in GetEntryInfoForReadDirectoryReplies :
           Deliver(r, ReadDirectoryByPathAfterGetEntry(req[r], open_files_, reply),
                   reply.error = DRIVE_FILE_OK /\ is_directory(reply.entry),
                   DirectoryInfoReply("resource_metadata.GetEntryInfoByPath",
                                      reply))

\* ChangeListLoader::LoadIfNeeded runs the callback of ReadDirectoryByPath.
LoadForReadDirectoryReply(r) ==
    /\ req[r].pc = "ReadDirectoryByPathAfterLoad"
    /\ \E error \in FileErrorReplies :
           Deliver(r, ReadDirectoryByPathAfterLoad(req[r], open_files_, error),
                   error = DRIVE_FILE_OK,
                   ErrorReply("change_list_loader.LoadIfNeeded", error))

ReadDirectoryReply(r) ==
    /\ req[r].pc = "ReadDirectoryByPathAfterRead"
    /\ \E reply \in ReadDirectoryReplies :
           Deliver(r, ReadDirectoryByPathAfterRead(req[r], open_files_, reply),
                   reply.error = DRIVE_FILE_OK,
                   <<"resource_metadata.ReadDirectoryByPath", reply.error,
                     reply.entries, "">>)

\* GetEntryInfoByPath calls and their continuations.
NextGetEntryInfo ==
    \E r \in Slots :
        \/ \E p \in Paths : GetEntryInfoByPath(r, p)
        \/ GetEntry1ForGetEntryInfoReply(r)
        \/ LoadForGetEntryInfoReply(r)
        \/ GetEntry2ForGetEntryInfoReply(r)
        \/ GetCacheEntryForLocalModificationReply(r)
        \/ GetCacheFileForLocalModificationReply(r)
        \/ GetFileInfoReply(r)

SpecGetEntryInfo == Init /\ [][NextGetEntryInfo]_vars

\* ReadDirectoryByPath calls and their continuations.
NextReadDirectory ==
    \E r \in Slots :
        \/ \E p \in Paths : ReadDirectoryByPath(r, p)
        \/ GetEntryForReadDirectoryReply(r)
        \/ LoadForReadDirectoryReply(r)
        \/ ReadDirectoryReply(r)

SpecReadDirectory == Init /\ [][NextReadDirectory]_vars

\* Polling, reloading and the loads the file operations ask for.
NextPolling ==
    \/ Initialize
    \/ Reload
    \/ ReloadAfterReset
    \/ StartPolling
    \/ StopPolling
    \/ \E enabled \in BOOLEAN : SetPushNotificationEnabled(enabled)
    \/ \E satisfied \in BOOLEAN : LoadIfNeeded(satisfied)
    \/ UpdateTimerFired
    \/ \E error \in FileErrorReplies : LoadCompleted(error)
    \/ AdvanceClock

SpecPolling == Init /\ [][NextPolling]_vars

\* Searches, one at a time, the callbacks of their lookups in any order,
\* and the loads of the change list loader.
NextSearch ==
    \/ Search
    \/ \E error \in FileErrorReplies, entries \in SearchBatches :
           OnSearch(error, entries)
    \/ \E i \in 1..MaxSearchEntries, error \in RefreshEntryForSearchReplies,
          alive \in BOOLEAN :
           AddToSearchResults(i, error, alive)
    \/ Initialize
    \/ \E satisfied \in BOOLEAN : LoadIfNeeded(satisfied)
    \/ \E error \in FileErrorReplies : LoadCompleted(error)

SpecSearch == Init /\ [][NextSearch]_vars

\* AddUploadedFile calls and their continuations.
NextAddUploadedFile ==
    \E r \in Slots :
        \/ \E p \in DrivePaths, m \in Md5s : AddUploadedFile(r, p, m)
        \/ AddEntryReply(r)
        \/ StoreUploadedFileReply(r)

SpecAddUploadedFile == Init /\ [][NextAddUploadedFile]_vars

\* The delta batches of the remote store and their application.
NextApplyChangeBatch ==
    \/ \E b \in ChangeBatches : ReceiveChangeBatch(b)
    \/ ApplyChangeBatchDeletions
    \/ ApplyChangeBatchEntry
    \/ NextChangeBatchPass
    \/ ChangeBatchApplied

SpecApplyChangeBatch == Init /\ [][NextApplyChangeBatch]_vars

Next ==
    \/ NextOpenClose
    \/ NextGetFile
    \/ NextCreateFile
    \/ NextGetEntryInfo
    \/ NextReadDirectory
    \/ NextPolling
    \/ NextApplyChangeBatch

Spec == Init /\ [][Next]_vars

(***************************************************************************)
(* One caller that makes a call when nothing of its earlier calls is       *)
(* pending, and collaborators that reply to every call.                    *)
(***************************************************************************)
\* No callback and no reply is waited for.
Quiescent == \A q \in Slots : Free(q)

\* The caller makes any call of the public operations.
AnyCall(r) ==
    \/ \E p \in Paths : OpenFile(r, p)
    \/ \E p \in Paths : CloseFile(r, p)
    \/ \E p \in Paths, x \in BOOLEAN : CreateFile(r, p, x)
    \/ \E p \in Paths : GetFileByPath(r, p)
    \/ \E p \in Paths, c \in ResourceIdContexts : GetFileByResourceId(r, p, c)
    \/ \E p \in Paths : GetEntryInfoByPath(r, p)
    \/ \E p \in Paths : ReadDirectoryByPath(r, p)

\* The message loop runs the posted callback of slot |r|, or a collaborator
\* replies to the call the request of slot |r| is waiting for.
Continuation(r) ==
    \/ RunPostedCallback(r)
    \/ GetEntryInfoForOpenFileReply(r)
    \/ MarkDirtyForOpenFileReply(r)
    \/ GetFileForOpenFileReply(r)
    \/ GetEntryInfoForCloseFileReply(r)
    \/ CommitDirtyReply(r)
    \/ GetEntryInfoForCreateFileReply(r)
    \/ TransferRegularFileReply(r)
    \/ GetEntryInfoForGetFileByPathReply(r)
    \/ GetEntryInfoForGetFileByResourceIdReply(r)
    \/ CreateDocumentJsonFileReply(r)
    \/ GetFileFromCacheReply(r)
    \/ GetResourceEntryReply(r)
    \/ RefreshEntryReply(r)
    \/ FreeDiskSpaceReply(r)
    \/ CreateTemporaryFileReply(r)
    \/ DownloadFileReply(r)
    \/ GetCacheEntryForCancelReply(r)
    \/ StoreReply(r)
    \/ GetFileAfterStoreReply(r)
    \/ GetEntry1ForGetEntryInfoReply(r)
    \/ LoadForGetEntryInfoReply(r)
    \/ GetEntry2ForGetEntryInfoReply(r)
    \/ GetCacheEntryForLocalModificationReply(r)
    \/ GetCacheFileForLocalModificationReply(r)
    \/ GetFileInfoReply(r)
    \/ GetEntryForReadDirectoryReply(r)
    \/ LoadForReadDirectoryReply(r)
    \/ ReadDirectoryReply(r)

NextOneCaller ==
    \E r \in Slots :
        \/ Quiescent /\ AnyCall(r)
        \/ Continuation(r)

\* Every collaborator replies to every call and the message loop runs every
\* posted task: a continuation that is waited for is eventually run.
SpecOneCaller ==
    /\ Init
    /\ [][NextOneCaller]_vars
    /\ \A r \in Slots : WF_vars(Continuation(r))

(***************************************************************************)
(* GetFile and OpenFile calls made one at a time, on any drive path and    *)
(* with any client context.                                                *)
(***************************************************************************)
DriveClientContexts == {USER_INITIATED, BACKGROUND}

NextGetFileAlone ==
    \E r \in Slots :
        \/ Quiescent /\ \E p \in DrivePaths : GetFileByPath(r, p)
        \/ Quiescent /\ \E p \in DrivePaths, c \in DriveClientContexts :
               GetFileByResourceId(r, p, c)
        \/ Quiescent /\ \E p \in Paths : OpenFile(r, p)
        \/ RunPostedCallback(r)
        \/ GetEntryInfoForOpenFileReply(r)
        \/ MarkDirtyForOpenFileReply(r)
        \/ GetFileForOpenFileReply(r)
        \/ GetEntryInfoForGetFileByPathReply(r)
        \/ GetEntryInfoForGetFileByResourceIdReply(r)
        \/ CreateDocumentJsonFileReply(r)
        \/ GetFileFromCacheReply(r)
        \/ GetResourceEntryReply(r)
        \/ RefreshEntryReply(r)
        \/ FreeDiskSpaceReply(r)
        \/ CreateTemporaryFileReply(r)
        \/ DownloadFileReply(r)
        \/ GetCacheEntryForCancelReply(r)
        \/ StoreReply(r)
        \/ GetFileAfterStoreReply(r)

SpecGetFileAlone == Init /\ [][NextGetFileAlone]_vars

\* GetFileByPath and GetEntryInfoByPath calls, one at a time, with the local
\* file operations they post to the blocking pool.
NextLocalIO ==
    \E r \in Slots :
        \/ Quiescent /\ \E p \in DrivePaths : GetFileByPath(r, p)
        \/ Quiescent /\ \E p \in DrivePaths : GetEntryInfoByPath(r, p)
        \/ GetEntryInfoForGetFileByPathReply(r)
        \/ CreateDocumentJsonFileReply(r)
        \/ GetFileFromCacheReply(r)
        \/ GetResourceEntryReply(r)
        \/ RefreshEntryReply(r)
        \/ FreeDiskSpaceReply(r)
        \/ CreateTemporaryFileReply(r)
        \/ DownloadFileReply(r)
        \/ GetCacheEntryForCancelReply(r)
        \/ StoreReply(r)
        \/ GetFileAfterStoreReply(r)
        \/ GetEntry1ForGetEntryInfoReply(r)
        \/ LoadForGetEntryInfoReply(r)
        \/ GetEntry2ForGetEntryInfoReply(r)
        \/ GetCacheEntryForLocalModificationReply(r)
        \/ GetCacheFileForLocalModificationReply(r)
        \/ GetFileInfoReply(r)

SpecLocalIO == Init /\ [][NextLocalIO]_vars

(***************************************************************************)
(* Properties                                                              *)
(***************************************************************************)
Requests == {req[r] : r \in Slots}

GetFileOps == {"GetFileByPath", "GetFileByResourceId"}

Replies(rq) == {rq.replies[i] : i \in 1..Len(rq.replies)}

\* An OpenFile call made while its path was in open_files_.
OpenedWhileOpen(rq) == rq.op = "OpenFile" /\ rq.was_open_at_call

\* C1: an OpenFile(p) called while p is in the open set (the earlier OpenFile
\* completed or still in flight) resolves with IN_USE and calls no
\* collaborator, and neither the call nor its posted callback changes the
\* open set.
C1_OpenWhileOpenIsInUse ==
    /\ [](\A rq \in Requests :
              OpenedWhileOpen(rq) =>
                  /\ rq.pc \in {"PostedCallback", "done"}
                  /\ rq.result.error = DRIVE_FILE_ERROR_IN_USE
                  /\ rq.calls = <<>>)
    /\ [][\A r \in Slots :
              (OpenedWhileOpen(req'[r]) /\ req'[r] # req[r]) =>
                  open_files_' = open_files_]_vars

\* An OpenFile was rejected with IN_USE while the OpenFile that holds the path
\* was still in flight.
C1_Witness ==
    \E r, q \in Slots :
        /\ OpenedWhileOpen(req[r])
        /\ req[r].pc = "done"
        /\ req[r].result.error = DRIVE_FILE_ERROR_IN_USE
        /\ req[q].op = "OpenFile"
        /\ req[q].path = req[r].path
        /\ req[q].pc \notin {"idle", "done", "PostedCallback"}

\* C2: at most one open of a path is outstanding: from the successful
\* completion of an OpenFile(p) to the completion of the CloseFile(p) that
\* ends it no other OpenFile(p) succeeds, and p is in the open set.
C2_OneOpenPerPath ==
    \A p \in Paths :
        /\ held[p] # "double"
        /\ held[p] = "open" => p \in open_files_

\* A CloseFile call made while its path was in open_files_, completed.
ClosedWhileOpen(rq) ==
    rq.op = "CloseFile" /\ rq.was_open_at_call /\ rq.pc = "done"

\* C3: a CloseFile(p) on an open path has removed p from the open set when
\* the caller's callback runs, whatever the outcome; when the entry lookup
\* fails, CommitDirty is not called and the lookup's error is returned.
C3_CloseRemovesPath ==
    \A rq \in Requests :
        ClosedWhileOpen(rq) =>
            /\ ~rq.path_open_at_callback
            /\ rq.replies[1][2] # DRIVE_FILE_OK =>
                   /\ "cache.CommitDirty" \notin Callees(rq)
                   /\ rq.result.error = rq.replies[1][2]

\* A CloseFile on an open path whose entry lookup failed has completed.
C3_Witness ==
    \E rq \in Requests :
        /\ ClosedWhileOpen(rq)
        /\ rq.replies[1][2] = DRIVE_FILE_ERROR_FAILED
        /\ rq.result.error = DRIVE_FILE_ERROR_FAILED

\* A CloseFile call made while its path was not in open_files_.
ClosedWhileNotOpen(rq) == rq.op = "CloseFile" /\ ~rq.was_open_at_call

\* C4: a CloseFile(p) on a path that is not in the open set resolves with
\* NOT_FOUND, makes no entry lookup and no CommitDirty, and leaves the open
\* set as it is.
C4_CloseNotOpenIsNotFound ==
    /\ [](\A rq \in Requests :
              ClosedWhileNotOpen(rq) =>
                  /\ rq.pc \in {"PostedCallback", "done"}
                  /\ rq.result.error = DRIVE_FILE_ERROR_NOT_FOUND
                  /\ rq.calls = <<>>)
    /\ [][\A r \in Slots :
              (ClosedWhileNotOpen(req'[r]) /\ req'[r] # req[r]) =>
                  open_files_' = open_files_]_vars

\* A CloseFile on a path that is not open has been answered NOT_FOUND.
C4_Witness ==
    \E rq \in Requests :
        /\ ClosedWhileNotOpen(rq)
        /\ rq.pc = "done"
        /\ rq.result.error = DRIVE_FILE_ERROR_NOT_FOUND

\* C5: in the scenario OpenFile(p) (succeeds), OpenFile(p), CloseFile(p),
\* OpenFile(p), the second open resolves with IN_USE, and the third, made
\* once the close has completed with any outcome, is not rejected with
\* IN_USE and succeeds when every collaborator it calls succeeds.
C5_OpenOpenCloseOpen ==
    /\ Len(script.log) >= 2 =>
           /\ script.log[2].op = "OpenFile"
           /\ script.log[2].error = DRIVE_FILE_ERROR_IN_USE
    /\ Len(script.log) >= 4 =>
           /\ script.log[4].op = "OpenFile"
           /\ script.log[4].error # DRIVE_FILE_ERROR_IN_USE
           /\ script.log[4].envok => script.log[4].error = DRIVE_FILE_OK

\* The scenario has run to its end: the close failed and the third open
\* succeeded.
C5_Witness ==
    /\ Len(script.log) = 4
    /\ script.log[3].op = "CloseFile"
    /\ script.log[3].error = DRIVE_FILE_ERROR_FAILED
    /\ script.log[4].error = DRIVE_FILE_OK

\* A GetFile whose cache lookup for the resolved regular entry was a hit.
CacheHit(rq) ==
    /\ rq.op \in GetFileOps
    /\ Len(rq.replies) >= 2
    /\ rq.replies[2] = ErrorReply("cache.GetFile", DRIVE_FILE_OK)

\* C6: a GetFile on a regular entry whose cache lookup hits returns the
\* cached path as a REGULAR_FILE, and calls nothing but the entry lookup and
\* that cache lookup: no scheduler call, no RefreshEntry, no space
\* reservation, no directory-changed notification.
C6_CacheHitCallsNoServer ==
    \A rq \in Requests :
        CacheHit(rq) =>
            /\ rq.pc = "done"
            /\ rq.result =
                   FileResult(DRIVE_FILE_OK,
                              CacheFilePath(rq.entry_proto.file_md5),
                              rq.entry_proto.content_mime_type, REGULAR_FILE)
            /\ rq.entry_proto.kind = "file"
            /\ Len(rq.calls) = 2
            /\ rq.calls[2] = <<"cache.GetFile", rq.entry_proto.file_md5>>
            /\ Callees(rq) \cap
                   {"scheduler.GetResourceEntry", "scheduler.DownloadFile",
                    "resource_metadata.RefreshEntry",
                    "cache.FreeDiskSpaceIfNeededFor",
                    "observers.OnDirectoryChanged"} = {}

\* A GetFile answered from the cache has completed.
C6_Witness ==
    \E rq \in Requests : CacheHit(rq) /\ rq.pc = "done"

\* A GetFile for which the cache reported too little space.
NoSpaceReported(rq) ==
    /\ rq.op \in GetFileOps
    /\ <<"cache.FreeDiskSpaceIfNeededFor", "FALSE", "", "">> \in Replies(rq)

\* C7: a GetFile that misses the cache and is told there is not enough space
\* fails with NO_SPACE; no temporary file is created and no download is
\* started for it.
C7_NoSpaceNoDownload ==
    \A rq \in Requests :
        NoSpaceReported(rq) =>
            /\ rq.pc = "done"
            /\ rq.result.error = DRIVE_FILE_ERROR_NO_SPACE
            /\ "blocking_pool.CreateTemporaryFileInDir" \notin Callees(rq)
            /\ "scheduler.DownloadFile" \notin Callees(rq)

\* A GetFile was told there is no space and failed with NO_SPACE.
C7_Witness ==
    \E rq \in Requests :
        NoSpaceReported(rq) /\ rq.result.error = DRIVE_FILE_ERROR_NO_SPACE

DownloadCancelled(rq) ==
    <<"scheduler.DownloadFile", "GDATA_CANCELLED", "", "">> \in Replies(rq)

\* C8: Unpin is called exactly when the download ended cancelled and the
\* cache entry looked up then exists and is pinned, and it is called on the
\* entry's (resource, md5); a download that ends otherwise makes neither the
\* cache-entry lookup nor an Unpin.
C8_UnpinOnCancelOfPinned ==
    \A rq \in Requests :
        /\ "cache.Unpin" \in Callees(rq) <=>
               /\ DownloadCancelled(rq)
               /\ <<"cache.GetCacheEntry", "TRUE", "TRUE", "">> \in Replies(rq)
        /\ "cache.GetCacheEntry" \in Callees(rq) <=> DownloadCancelled(rq)
        /\ \A i \in 1..Len(rq.calls) :
               rq.calls[i][1] = "cache.Unpin" =>
                   rq.calls[i][2] = rq.entry_proto.file_md5

\* A cancelled download of a pinned entry was unpinned, and a cancelled
\* download of an entry that is in the cache unpinned was not.
C8_Witness ==
    /\ \E rq \in Requests :
           DownloadCancelled(rq) /\ "cache.Unpin" \in Callees(rq)
    /\ \E rq \in Requests :
           /\ DownloadCancelled(rq)
           /\ <<"cache.GetCacheEntry", "TRUE", "FALSE", "">> \in Replies(rq)
           /\ "cache.Unpin" \notin Callees(rq)

\* A CreateFile whose lookup found a directory or a hosted document.
CreateOnDirectoryOrHosted(rq) ==
    /\ rq.op = "CreateFile"
    /\ Len(rq.replies) >= 1
    /\ rq.replies[1][2] = DRIVE_FILE_OK
    /\ rq.replies[1][3] \in {"dir", "hosted"}

\* C9 as stated: CreateFile on an existing directory or hosted document fails
\* with EXISTS when exclusive and with INVALID_OPERATION when not, and starts
\* no upload.
C9_ExistsOrInvalidOperation ==
    \A rq \in Requests :
        CreateOnDirectoryOrHosted(rq) =>
            /\ rq.pc = "done"
            /\ rq.result.error =
                   IF rq.is_exclusive THEN DRIVE_FILE_ERROR_EXISTS
                   ELSE DRIVE_FILE_ERROR_INVALID_OPERATION
            /\ "drive_operations.TransferRegularFile" \notin Callees(rq)

\* C9 amended: CreateFile on an existing directory or hosted document fails
\* with EXISTS, exclusive or not, and starts no upload.
C9_ExistsWhateverExclusive ==
    \A rq \in Requests :
        CreateOnDirectoryOrHosted(rq) =>
            /\ rq.pc = "done"
            /\ rq.result.error = DRIVE_FILE_ERROR_EXISTS
            /\ "drive_operations.TransferRegularFile" \notin Callees(rq)

\* A non-exclusive CreateFile on a hosted document has failed with EXISTS.
C9_Witness ==
    \E rq \in Requests :
        /\ CreateOnDirectoryOrHosted(rq)
        /\ rq.replies[1][3] = "hosted"
        /\ ~rq.is_exclusive
        /\ rq.result.error = DRIVE_FILE_ERROR_EXISTS

\* C10: a non-exclusive CreateFile on an existing regular file resolves with
\* OK and starts no upload; an upload is started only when the lookup
\* reported NOT_FOUND; any other lookup error is returned as it is, without
\* an upload.
C10_CreateUploadsOnlyOnNotFound ==
    \A rq \in Requests :
        (rq.op = "CreateFile" /\ Len(rq.replies) >= 1) =>
            /\ (rq.replies[1][2] = DRIVE_FILE_OK /\ rq.replies[1][3] = "file"
                  /\ ~rq.is_exclusive) =>
                   /\ rq.pc = "done"
                   /\ rq.result.error = DRIVE_FILE_OK
                   /\ "drive_operations.TransferRegularFile" \notin Callees(rq)
            /\ "drive_operations.TransferRegularFile" \in Callees(rq) =>
                   rq.replies[1][2] = DRIVE_FILE_ERROR_NOT_FOUND
            /\ rq.replies[1][2] \notin {DRIVE_FILE_OK, DRIVE_FILE_ERROR_NOT_FOUND} =>
                   /\ rq.pc = "done"
                   /\ rq.result.error = rq.replies[1][2]
                   /\ "drive_operations.TransferRegularFile" \notin Callees(rq)

\* One CreateFile found a regular file and succeeded without an upload, and
\* another found nothing and started the upload.
C10_Witness ==
    /\ \E rq \in Requests :
           /\ rq.op = "CreateFile" /\ rq.pc = "done" /\ ~rq.is_exclusive
           /\ rq.replies[1][3] = "file"
           /\ rq.result.error = DRIVE_FILE_OK
    /\ \E rq \in Requests :
           /\ rq.op = "CreateFile"
           /\ "drive_operations.TransferRegularFile" \in Callees(rq)

\* A GetFile whose lookup found a hosted document.
HostedGetFile(rq) ==
    /\ rq.op \in GetFileOps
    /\ Len(rq.replies) >= 1
    /\ rq.replies[1][2] = DRIVE_FILE_OK
    /\ rq.replies[1][3] = "hosted"

\* C11: a GetFile on a hosted document calls nothing but the entry lookup and
\* the creation of the JSON file: no DriveCache call (GetFile, Store,
\* MarkDirty, CommitDirty, Unpin, ...) and no DriveScheduler call.  When the
\* JSON file is created it resolves with (OK, that file, application/json,
\* HOSTED_DOCUMENT), the entry's own mime type being another one; when the
\* creation fails it resolves with FAILED.
C11_HostedDocumentIsJsonStub ==
    \A rq \in Requests :
        HostedGetFile(rq) =>
            /\ Callees(rq) \subseteq
                   {"resource_metadata.GetEntryInfoByPath",
                    "resource_metadata.GetEntryInfoByResourceId",
                    "blocking_pool.CreateDocumentJsonFile"}
            /\ rq.entry_proto.content_mime_type # kMimeTypeJson
            /\ ErrorReply("blocking_pool.CreateDocumentJsonFile", DRIVE_FILE_OK)
                   \in Replies(rq) =>
                   /\ rq.pc = "done"
                   /\ rq.result = FileResult(DRIVE_FILE_OK, "document.json",
                                             kMimeTypeJson, HOSTED_DOCUMENT)
            /\ ErrorReply("blocking_pool.CreateDocumentJsonFile",
                          DRIVE_FILE_ERROR_FAILED) \in Replies(rq) =>
                   /\ rq.pc = "done"
                   /\ rq.result.error = DRIVE_FILE_ERROR_FAILED

\* One GetFile on a hosted document returned the JSON file and another one
\* failed to create it.
C11_Witness ==
    /\ \E rq \in Requests :
           /\ HostedGetFile(rq)
           /\ rq.result.file_type = HOSTED_DOCUMENT
           /\ rq.result.mime_type = kMimeTypeJson
    /\ \E rq \in Requests :
           /\ HostedGetFile(rq)
           /\ rq.pc = "done"
           /\ rq.result.error = DRIVE_FILE_ERROR_FAILED

\* A GetFile whose download succeeded and whose store into the cache failed.
StoreFailed(rq) ==
    /\ rq.op \in GetFileOps
    /\ ErrorReply("cache.Store", DRIVE_FILE_ERROR_FAILED) \in Replies(rq)

\* C18: when the store of a downloaded file into the cache fails, the
\* deletion of the downloaded file is posted before the caller's callback
\* runs, the callback receives the store's error, and no directory-changed
\* notification is sent.
C18_StoreFailureDeletesDownload ==
    \A rq \in Requests :
        StoreFailed(rq) =>
            /\ rq.pc = "done"
            /\ rq.runs = 1
            /\ rq.result.error = DRIVE_FILE_ERROR_FAILED
            /\ \E i \in 1..rq.calls_at_callback :
                   rq.calls[i][1] = "blocking_pool.Delete"
            /\ "observers.OnDirectoryChanged" \notin Callees(rq)

\* A download succeeded and its store failed.
C18_Witness ==
    \E rq \in Requests :
        /\ StoreFailed(rq)
        /\ <<"scheduler.DownloadFile", "HTTP_SUCCESS", "", "">> \in Replies(rq)
        /\ "blocking_pool.Delete" \in Callees(rq)

\* The number of calls the request made on |callee|.
CallCount(rq, callee) ==
    Cardinality({i \in 1..Len(rq.calls) : rq.calls[i][1] = callee})

\* The i-th reply the request received, if it received that many.
ReplyIs(rq, i, callee, error) ==
    /\ Len(rq.replies) >= i
    /\ rq.replies[i][1] = callee
    /\ rq.replies[i][2] = error

\* What C15 says of the lookups and the loads of a GetEntryInfoByPath: at most
\* two lookups and one load; no load when the first lookup finds the entry,
\* one load when it does not, and one more lookup once the load succeeded.
LookupsAndLoads(rq) ==
    /\ CallCount(rq, "resource_metadata.GetEntryInfoByPath") <= 2
    /\ CallCount(rq, "change_list_loader.LoadIfNeeded") <= 1
    /\ ReplyIs(rq, 1, "resource_metadata.GetEntryInfoByPath", DRIVE_FILE_OK) =>
           /\ CallCount(rq, "change_list_loader.LoadIfNeeded") = 0
           /\ CallCount(rq, "resource_metadata.GetEntryInfoByPath") = 1
    /\ (Len(rq.replies) >= 1 /\ rq.replies[1][2] # DRIVE_FILE_OK) =>
           rq.calls[2] = <<"change_list_loader.LoadIfNeeded", "", "">>
    /\ ReplyIs(rq, 2, "change_list_loader.LoadIfNeeded", DRIVE_FILE_OK) =>
           /\ CallCount(rq, "resource_metadata.GetEntryInfoByPath") = 2
           /\ rq.calls[3] = <<"resource_metadata.GetEntryInfoByPath", rq.path>>

\* C15 as stated: GetEntryInfoByPath makes at most two lookups and one load;
\* no load when the first lookup finds the entry; otherwise one load and one
\* retry of the lookup; and when the load failed or the entry is still not
\* found, it resolves with NOT_FOUND.
C15_RetryOnceThenNotFound ==
    \A rq \in Requests :
        rq.op = "GetEntryInfoByPath" =>
            /\ LookupsAndLoads(rq)
            /\ (\/ ReplyIs(rq, 2, "change_list_loader.LoadIfNeeded",
                           DRIVE_FILE_ERROR_FAILED)
                \/ ReplyIs(rq, 3, "resource_metadata.GetEntryInfoByPath",
                           DRIVE_FILE_ERROR_NOT_FOUND)) =>
                   /\ rq.pc = "done"
                   /\ rq.result.error = DRIVE_FILE_ERROR_NOT_FOUND

\* C15 amended: the same lookups and loads; when the load failed the call
\* resolves with the load's error and the lookup is not retried, and when the
\* retried lookup fails the call resolves with that lookup's error, NOT_FOUND
\* for an entry that is still not there.
C15_RetryOnceThenLookupOrLoadError ==
    \A rq \in Requests :
        rq.op = "GetEntryInfoByPath" =>
            /\ LookupsAndLoads(rq)
            /\ ReplyIs(rq, 2, "change_list_loader.LoadIfNeeded",
                       DRIVE_FILE_ERROR_FAILED) =>
                   /\ rq.pc = "done"
                   /\ rq.result.error = DRIVE_FILE_ERROR_FAILED
                   /\ CallCount(rq, "resource_metadata.GetEntryInfoByPath") = 1
            /\ (/\ Len(rq.replies) >= 3
                /\ rq.replies[3][1] = "resource_metadata.GetEntryInfoByPath"
                /\ rq.replies[3][2] # DRIVE_FILE_OK) =>
                   /\ rq.pc = "done"
                   /\ rq.result.error = rq.replies[3][2]

\* One GetEntryInfoByPath failed with the error of its load, and another
\* resolved with NOT_FOUND after the load and the second lookup.
C15_Witness ==
    /\ \E rq \in Requests :
           /\ rq.op = "GetEntryInfoByPath" /\ rq.pc = "done"
           /\ ReplyIs(rq, 2, "change_list_loader.LoadIfNeeded",
                      DRIVE_FILE_ERROR_FAILED)
           /\ rq.result.error = DRIVE_FILE_ERROR_FAILED
    /\ \E rq \in Requests :
           /\ rq.op = "GetEntryInfoByPath" /\ rq.pc = "done"
           /\ ReplyIs(rq, 3, "resource_metadata.GetEntryInfoByPath",
                      DRIVE_FILE_ERROR_NOT_FOUND)
           /\ rq.result.error = DRIVE_FILE_ERROR_NOT_FOUND

\* A ReadDirectoryByPath whose lookup found an entry.
ReadKnown(rq) ==
    /\ rq.op = "ReadDirectoryByPath"
    /\ ReplyIs(rq, 1, "resource_metadata.GetEntryInfoByPath", DRIVE_FILE_OK)

\* C16: ReadDirectoryByPath on a known directory calls LoadIfNeeded with the
\* DirectoryFetchInfo of the entry's resource id and changestamp, and reads
\* the directory only after that load has answered OK; when the load fails
\* its error is returned and the directory is not read; when the entry is not
\* a directory the call resolves with NOT_A_DIRECTORY and asks for no load.
C16_ReadKnownDirectoryAfterItsLoad ==
    \A rq \in Requests :
        ReadKnown(rq) =>
            /\ rq.replies[1][3] = "dir" =>
                   /\ rq.calls[2] = <<"change_list_loader.LoadIfNeeded",
                                      rq.replies[1][4], rq.replies[1][5]>>
                   /\ CallCount(rq, "change_list_loader.LoadIfNeeded") = 1
                   /\ "resource_metadata.ReadDirectoryByPath" \in Callees(rq) =>
                          ReplyIs(rq, 2, "change_list_loader.LoadIfNeeded",
                                  DRIVE_FILE_OK)
                   /\ ReplyIs(rq, 2, "change_list_loader.LoadIfNeeded",
                              DRIVE_FILE_ERROR_FAILED) =>
                          /\ rq.pc = "done"
                          /\ rq.result =
                                 ReadDirectoryResult(DRIVE_FILE_ERROR_FAILED, "")
                          /\ "resource_metadata.ReadDirectoryByPath"
                                 \notin Callees(rq)
            /\ rq.replies[1][3] # "dir" =>
                   /\ rq.pc = "done"
                   /\ rq.result =
                          ReadDirectoryResult(DRIVE_FILE_ERROR_NOT_A_DIRECTORY, "")
                   /\ Len(rq.calls) = 1

\* The directory ("id2", "c2") was read after its load, and the read of a
\* known directory failed with the error of its load.
C16_Witness ==
    /\ \E rq \in Requests :
           /\ ReadKnown(rq)
           /\ rq.replies[1][4] = "id2" /\ rq.replies[1][5] = "c2"
           /\ rq.pc = "done"
           /\ rq.result = ReadDirectoryResult(DRIVE_FILE_OK, "children")
    /\ \E rq \in Requests :
           /\ ReadKnown(rq)
           /\ rq.replies[1][3] = "dir"
           /\ rq.pc = "done"
           /\ rq.result.error = DRIVE_FILE_ERROR_FAILED

\* A ReadDirectoryByPath whose lookup did not find the path.
ReadUnknown(rq) ==
    /\ rq.op = "ReadDirectoryByPath"
    /\ Len(rq.replies) >= 1
    /\ rq.replies[1][2] # DRIVE_FILE_OK

\* C17: ReadDirectoryByPath on a path the lookup does not find calls
\* LoadIfNeeded with the empty DirectoryFetchInfo and, once that load has
\* answered OK, reads the directory from DriveResourceMetadata and returns
\* what it read; nothing is read or returned as a listing before the load has
\* answered OK.
C17_ReadUnknownAfterFullLoad ==
    \A rq \in Requests :
        ReadUnknown(rq) =>
            /\ rq.calls[2] = <<"change_list_loader.LoadIfNeeded", "", "">>
            /\ CallCount(rq, "change_list_loader.LoadIfNeeded") = 1
            /\ ReplyIs(rq, 2, "change_list_loader.LoadIfNeeded", DRIVE_FILE_OK) =>
                   /\ Len(rq.calls) = 3
                   /\ rq.calls[3] =
                          <<"resource_metadata.ReadDirectoryByPath", rq.path>>
            /\ "resource_metadata.ReadDirectoryByPath" \in Callees(rq) =>
                   ReplyIs(rq, 2, "change_list_loader.LoadIfNeeded", DRIVE_FILE_OK)
            /\ (rq.pc = "done" /\ rq.result.error = DRIVE_FILE_OK) =>
                   /\ ReplyIs(rq, 2, "change_list_loader.LoadIfNeeded",
                              DRIVE_FILE_OK)
                   /\ ReplyIs(rq, 3, "resource_metadata.ReadDirectoryByPath",
                              DRIVE_FILE_OK)
                   /\ rq.result.entries = rq.replies[3][3]

\* A directory unknown at the call was listed after the load.
C17_Witness ==
    \E rq \in Requests :
        /\ ReadUnknown(rq)
        /\ rq.pc = "done"
        /\ rq.result = ReadDirectoryResult(DRIVE_FILE_OK, "children")

\* C12: every call of OpenFile, CloseFile, CreateFile, GetFile,
\* GetEntryInfoByPath and ReadDirectoryByPath runs its completion callback
\* exactly once, with a result that is a success or one error: the callback
\* has never run twice, it has run once exactly when the request is over,
\* and, the collaborators replying to every call, every request made is
\* eventually over.  The cancelled download, whose cache entry lookup goes
\* on after the callback, is one of the paths.
C12_CallbackRunsExactlyOnce ==
    /\ [](\A rq \in Requests :
              /\ rq.runs <= 1
              /\ rq.pc = "done" <=> rq.runs = 1
              /\ rq.pc = "done" => rq.result.error # NoResult.error)
    /\ \A r \in Slots :
           (req[r].pc \notin {"idle", "done"}) ~> (req[r].pc = "done")

\* A GetFile whose download was cancelled has run its callback with CANCELLED
\* and its cache entry lookup has led to an Unpin.
C12_Witness ==
    \E rq \in Requests :
        /\ rq.op \in GetFileOps
        /\ rq.pc = "done"
        /\ rq.runs = 1
        /\ rq.result.error = DRIVE_FILE_ERROR_CANCELLED
        /\ rq.cancel = "unpin"

\* The update timer fires: a polling tick.
TickStep ==
    /\ update_timer_.running
    /\ update_timer_'.running
    /\ update_timer_'.desired_run_time # update_timer_.desired_run_time

\* The loader is loaded and no refresh is in flight.
LoadedAndIdle ==
    change_list_loader_.exists /\ change_list_loader_.state = "Loaded"

\* A refresh is requested from the loader on behalf of the poller.
RefreshRequested ==
    /\ change_list_loader_'.state = "Refreshing"
    /\ change_list_loader_'.loads = change_list_loader_.loads + 1
    /\ change_list_loader_'.pending = <<"OnUpdateChecked">>

\* C13: on each polling tick a refresh is requested from the loader if and
\* only if the loader is loaded and not refreshing at that moment; a tick
\* that finds it absent, unloaded, loading or refreshing leaves the loader as
\* it was (nothing is started, nothing is queued) and leaves
\* last_update_check_time_ and last_update_check_error_ unchanged.
C13_TickRefreshesIffLoadedAndIdle ==
    [][TickStep =>
           /\ RefreshRequested <=> LoadedAndIdle
           /\ ~LoadedAndIdle =>
                  /\ change_list_loader_' = change_list_loader_
                  /\ last_update_check_time_' = last_update_check_time_
                  /\ last_update_check_error_' = last_update_check_error_]_vars

\* A tick has just arrived while a refresh was in flight and the refresh is
\* still the only thing the loader is doing.
C13_Witness ==
    /\ last_tick.fired
    /\ last_tick.time = now
    /\ last_tick.exists
    /\ last_tick.state = "Refreshing"
    /\ change_list_loader_.state = "Refreshing"
    /\ change_list_loader_.pending = <<"OnUpdateChecked">>

\* C14: while polling is running, the tick that follows a tick comes after
\* the interval of the push-notification flag as it is at that tick (slow
\* when enabled, fast when disabled), without StopPolling and StartPolling.
C14_TicksFollowPushFlag ==
    [][TickStep =>
           update_timer_'.desired_run_time =
               now + IntervalFor(push_notification_enabled_)]_vars

\* A callback is added to the callbacks waiting for the load in flight.
QueuedStep ==
    /\ Len(change_list_loader_'.pending) =
           Len(change_list_loader_.pending) + 1
    /\ SubSeq(change_list_loader_'.pending, 1,
              Len(change_list_loader_.pending)) = change_list_loader_.pending

\* The load in flight ends.
CompletedStep == change_list_loader_'.loads < change_list_loader_.loads

\* C19: the loader never has two loads in flight; a request made while a load
\* is in flight is added to the waiting callbacks and starts no load; when
\* the load in flight ends every waiting callback is run (OnUpdateChecked
\* records the time and the error of the check) and none is left waiting.
C19_OneLoadInFlight ==
    /\ [](change_list_loader_.loads <= 1)
    /\ [][(change_list_loader_.loads > 0 /\ QueuedStep) =>
              /\ change_list_loader_'.loads = change_list_loader_.loads
              /\ change_list_loader_'.state = change_list_loader_.state]_vars
    /\ [][CompletedStep =>
              /\ change_list_loader_'.loads = 0
              /\ change_list_loader_'.pending = <<>>
              /\ change_list_loader_'.ran = change_list_loader_.pending
              /\ (\E i \in 1..Len(change_list_loader_.pending) :
                      change_list_loader_.pending[i] = "OnUpdateChecked")
                     => /\ last_update_check_time_' = now
                        /\ last_update_check_error_' \in FileErrorReplies]_vars

\* A load has ended and has run a callback that was queued while it was in
\* flight.
C19_Witness ==
    /\ change_list_loader_.loads = 0
    /\ Len(change_list_loader_.ran) >= 2

\* The batch has an entry ahead of the entry that is its parent, and both
\* are new to the tree.
ChildBeforeParent(b) ==
    \E i, j \in 1..Len(b) :
        /\ i < j
        /\ ~b[i].deleted /\ ~b[j].deleted
        /\ b[i].parent = b[j].id

\* C20: once a delta ChangeBatch is fully applied (among them the batches
\* with a child ahead of its parent) every entry of the tree has exactly
\* one parent, which is in the tree, there is no cycle, and every entry of
\* the batch is attached under the parent the batch gives it; at no step is
\* an entry attached under a parent that is not in the tree.
C20_ChildBeforeParentIsRooted ==
    /\ [](phase = "applied" =>
              /\ WellFormed(tree)
              /\ \A i \in 1..Len(feed) :
                     IF feed[i].deleted
                     THEN ~Present(tree, feed[i].id)
                     ELSE Parents(tree, feed[i].id) = {feed[i].parent})
    /\ [][\A e \in tree' \ tree : Present(tree, e[1])]_vars

\* A batch with a child ahead of its parent, the parent not in the tree
\* before, has been applied in two passes.
C20_Witness ==
    /\ phase = "applied"
    /\ ChildBeforeParent(feed)
    /\ passes >= 2

\* The reply that made the request run its callback: its last reply, the
\* reply to the lookup of a cancelled download left aside.
LastStageReply(rq) ==
    LET s == SelectSeq(rq.replies, LAMBDA x : x[1] # "cache.GetCacheEntry")
    IN  s[Len(s)]

\* The DriveFileError a reply of a collaborator stands for.
StageError(x) ==
    CASE x[1] = "scheduler.GetResourceEntry" ->
             IF GDataToDriveFileError(x[2]) # DRIVE_FILE_OK
             THEN GDataToDriveFileError(x[2])
             ELSE IF x[3] = "" THEN DRIVE_FILE_ERROR_ACCESS_DENIED
             ELSE DRIVE_FILE_OK
      [] x[1] = "scheduler.DownloadFile" -> GDataToDriveFileError(x[2])
      [] x[1] = "cache.FreeDiskSpaceIfNeededFor" ->
             IF x[2] = "TRUE" THEN DRIVE_FILE_OK ELSE DRIVE_FILE_ERROR_NO_SPACE
      [] x[1] = "blocking_pool.CreateTemporaryFileInDir" ->
             IF x[2] = "TRUE" THEN DRIVE_FILE_OK ELSE DRIVE_FILE_ERROR_FAILED
      [] OTHER -> x[2]

\* An OpenFile that passed the open_files_ check and has run its callback.
OpenFileRan(rq) ==
    rq.op = "OpenFile" /\ rq.pc = "done" /\ ~rq.was_open_at_call

\* C21: an OpenFile that was let in succeeds only when its last two calls
\* are cache MarkDirty and cache GetFile for the md5 of the entry it looked
\* up, both answered OK, and it returns that cache file; when it fails it
\* returns the error of the stage that failed (the lookup's error, the error
\* of the type check, the error of the materialization stage, MarkDirty's or
\* the final GetFile's) with no file, and the path is not in open_files_ when
\* the caller's callback runs.
C21_OpenSucceedsAfterMarkDirtyOrCleansUp ==
    \A rq \in Requests :
        OpenFileRan(rq) =>
            LET n == Len(rq.replies)
                c == Len(rq.calls)
                last == LastStageReply(rq)
            IN  /\ rq.result.error = DRIVE_FILE_OK =>
                       /\ n >= 2 /\ c >= 2
                       /\ rq.replies[n] = ErrorReply("cache.GetFile", DRIVE_FILE_OK)
                       /\ rq.replies[n - 1] =
                              ErrorReply("cache.MarkDirty", DRIVE_FILE_OK)
                       /\ rq.calls[c] = <<"cache.GetFile", rq.open_md5>>
                       /\ rq.calls[c - 1] = <<"cache.MarkDirty", rq.open_md5>>
                       /\ rq.result.file = CacheFilePath(rq.open_md5)
                /\ rq.result.error # DRIVE_FILE_OK =>
                       /\ ~rq.path_open_at_callback
                       /\ rq.result.file = ""
                       /\ rq.result.error =
                              IF last[1] # "resource_metadata.GetEntryInfoByPath"
                              THEN StageError(last)
                              ELSE IF last[2] # DRIVE_FILE_OK THEN last[2]
                              ELSE IF last[3] = "hosted"
                              THEN DRIVE_FILE_ERROR_INVALID_OPERATION
                              ELSE DRIVE_FILE_ERROR_NOT_FOUND

\* An OpenFile has failed at its final cache lookup, after MarkDirty
\* succeeded, and the path was out of open_files_ at its callback.
C21_Witness ==
    \E rq \in Requests :
        /\ OpenFileRan(rq)
        /\ Len(rq.replies) >= 2
        /\ rq.replies[Len(rq.replies)] =
               ErrorReply("cache.GetFile", DRIVE_FILE_ERROR_NOT_FOUND)
        /\ rq.replies[Len(rq.replies) - 1] =
               ErrorReply("cache.MarkDirty", DRIVE_FILE_OK)
        /\ rq.result.error = DRIVE_FILE_ERROR_NOT_FOUND
        /\ ~rq.path_open_at_callback

\* The entry the lookup of an OpenFile found is a directory or a hosted
\* document.
OpenedDirectoryOrHosted(rq) ==
    /\ OpenFileRan(rq)
    /\ rq.replies[1][2] = DRIVE_FILE_OK
    /\ rq.replies[1][3] \in {"dir", "hosted"}

\* C22: an OpenFile whose path resolves to a directory or to a hosted
\* document fails with INVALID_OPERATION, having called nothing but the
\* lookup: no cache, server or blocking-pool call, no MarkDirty.
C22_OpenDirectoryOrHostedIsInvalidOperation ==
    \A rq \in Requests :
        OpenedDirectoryOrHosted(rq) =>
            /\ rq.result.error = DRIVE_FILE_ERROR_INVALID_OPERATION
            /\ rq.calls = <<<<"resource_metadata.GetEntryInfoByPath", rq.path>>>>

\* The stages of the materialization of a regular file, in their order.
StageOrder ==
    <<"cache.GetFile", "scheduler.GetResourceEntry",
      "resource_metadata.RefreshEntry", "cache.FreeDiskSpaceIfNeededFor",
      "blocking_pool.CreateTemporaryFileInDir", "scheduler.DownloadFile",
      "cache.Store", "cache.GetFile">>

IsStage(x) == \E i \in 1..Len(StageOrder) : x[1] = StageOrder[i]

StageCalls(rq) == SelectSeq(rq.calls, IsStage)

StageReplies(rq) == SelectSeq(rq.replies, IsStage)

\* The reply to stage |i| is a failure; a miss of the first cache lookup is
\* none.
StageFailed(i, x) == i > 1 /\ StageError(x) # DRIVE_FILE_OK

\* C23: in a GetFile run the stages are called in the fixed order cache
\* GetFile, GetResourceEntry, RefreshEntry, FreeDiskSpaceIfNeededFor,
\* CreateTemporaryFileInDir, DownloadFile, Store, cache GetFile, each at most
\* once and each after the reply to the one before; when the reply to a
\* stage is a failure that stage is the last one called and the caller gets
\* the DriveFileError the reply stands for.
C23_StagesInOrderAndShortCircuit ==
    \A rq \in Requests :
        rq.op \in GetFileOps =>
            LET calls == StageCalls(rq)
                replies == StageReplies(rq)
            IN  /\ Len(calls) <= Len(StageOrder)
                /\ \A i \in 1..Len(calls) : calls[i][1] = StageOrder[i]
                /\ Len(replies) <= Len(calls)
                /\ Len(calls) <= Len(replies) + 1
                /\ \A i \in 1..Len(replies) :
                       /\ replies[i][1] = StageOrder[i]
                       /\ StageFailed(i, replies[i]) =>
                              /\ Len(calls) = i
                              /\ rq.pc = "done"
                              /\ rq.result.error = StageError(replies[i])

\* A GetFile has failed at the download, its sixth stage, with the error of
\* the download.
C23_Witness ==
    \E rq \in Requests :
        /\ rq.op \in GetFileOps
        /\ rq.pc = "done"
        /\ Len(StageCalls(rq)) = 6
        /\ Len(StageReplies(rq)) = 6
        /\ StageReplies(rq)[6] =
               <<"scheduler.DownloadFile", "GDATA_OTHER_ERROR", "", "">>
        /\ rq.result.error = DRIVE_FILE_ERROR_FAILED

\* The reply of the server to the GetResourceEntry of the request, once it
\* has come: the second reply of the stages.
ResourceEntryReplied(rq) ==
    /\ rq.op \in GetFileOps
    /\ Len(StageReplies(rq)) >= 2

\* C24: when GetResourceEntry answers with success and an empty download
\* URL the GetFile fails with ACCESS_DENIED, and when it answers with a
\* status that is not a success the GetFile fails with the error of that
\* status; in both cases the request has run its callback by the end of the
\* continuation and has called neither RefreshEntry nor
\* FreeDiskSpaceIfNeededFor nor DownloadFile.
C24_NoLocatorIsAccessDenied ==
    \A rq \in Requests :
        ResourceEntryReplied(rq) =>
            LET x == StageReplies(rq)[2]
                aborted ==
                    /\ rq.pc = "done"
                    /\ Callees(rq) \cap {"resource_metadata.RefreshEntry",
                                         "cache.FreeDiskSpaceIfNeededFor",
                                         "scheduler.DownloadFile"} = {}
            IN  /\ (x[2] = "HTTP_SUCCESS" /\ x[3] = "") =>
                       /\ aborted
                       /\ rq.result.error = DRIVE_FILE_ERROR_ACCESS_DENIED
                /\ x[2] # "HTTP_SUCCESS" =>
                       /\ aborted
                       /\ rq.result.error = GDataToDriveFileError(x[2])

\* A GetFile missed the cache, the server answered with an empty download
\* URL and the caller got ACCESS_DENIED.
C24_Witness ==
    \E rq \in Requests :
        /\ ResourceEntryReplied(rq)
        /\ StageReplies(rq)[1] =
               ErrorReply("cache.GetFile", DRIVE_FILE_ERROR_NOT_FOUND)
        /\ StageReplies(rq)[2] =
               <<"scheduler.GetResourceEntry", "HTTP_SUCCESS", "", "">>
        /\ rq.result.error = DRIVE_FILE_ERROR_ACCESS_DENIED

\* The md5 of the entry RefreshEntry returned to the request: the third
\* reply of the stages.
RefreshedMd5(rq) == StageReplies(rq)[3][4]

\* C25: FreeDiskSpaceIfNeededFor is called only after RefreshEntry has
\* answered OK, with the size of the entry RefreshEntry returned, and the
\* downloaded file is stored under the md5 of that entry, whatever entry the
\* request started with.
C25_ReserveAndStoreUseRefreshedEntry ==
    \A rq \in Requests :
        rq.op \in GetFileOps =>
            /\ "cache.FreeDiskSpaceIfNeededFor" \in Callees(rq) =>
                   /\ Len(StageReplies(rq)) >= 3
                   /\ StageReplies(rq)[3][2] = DRIVE_FILE_OK
                   /\ StageCalls(rq)[4] =
                          <<"cache.FreeDiskSpaceIfNeededFor",
                            RegularFileEntry(RefreshedMd5(rq)).size>>
            /\ "cache.Store" \in Callees(rq) =>
                   StageCalls(rq)[7] = <<"cache.Store", RefreshedMd5(rq)>>

\* A GetFile that started with an entry of md5 LocalMd5 has stored its
\* download under another md5, the one RefreshEntry returned.
C25_Witness ==
    \E rq \in Requests :
        /\ rq.op \in GetFileOps
        /\ "cache.Store" \in Callees(rq)
        /\ rq.replies[1][4] = LocalMd5
        /\ RefreshedMd5(rq) # LocalMd5
        /\ StageCalls(rq)[1] = <<"cache.GetFile", LocalMd5>>
        /\ StageCalls(rq)[7] = <<"cache.Store", RefreshedMd5(rq)>>

\* The indices of the directory-changed notifications in the call log.
NotificationsAt(rq) ==
    {i \in 1..Len(rq.calls) : rq.calls[i][1] = "observers.OnDirectoryChanged"}

\* The store of the download of the request has succeeded.
StoreSucceeded(rq) ==
    /\ Len(StageReplies(rq)) >= 7
    /\ StageReplies(rq)[7] = ErrorReply("cache.Store", DRIVE_FILE_OK)

\* One notification, of the directory of the requested path, sent right
\* after the call of the store and before the final cache lookup, which is
\* made before the caller's callback runs.
NotifiedOnceAfterStore(rq) ==
    \E i \in 2..(Len(rq.calls) - 1) :
        /\ NotificationsAt(rq) = {i}
        /\ rq.calls[i][2] = DirName(rq.path)
        /\ rq.calls[i - 1][1] = "cache.Store"
        /\ rq.calls[i + 1] = <<"cache.GetFile", RefreshedMd5(rq)>>
        /\ rq.pc = "done" => i < rq.calls_at_callback

\* C26 as stated: a GetFile run whose store succeeded sends exactly one
\* directory-changed notification, for the directory of the path, after the
\* store and before the callback, and returns the re-fetched cache file as a
\* regular file; a run that ends in a cache hit, a hosted document or any
\* error has sent no notification.
C26_NotifiesOnceAndOnlyOnSuccess ==
    \A rq \in Requests :
        (rq.op \in GetFileOps /\ rq.pc = "done") =>
            /\ StoreSucceeded(rq) =>
                   /\ NotifiedOnceAfterStore(rq)
                   /\ rq.result = FileResult(DRIVE_FILE_OK,
                                      CacheFilePath(RefreshedMd5(rq)),
                                      rq.entry_proto.content_mime_type,
                                      REGULAR_FILE)
            /\ (~StoreSucceeded(rq) \/ rq.result.error # DRIVE_FILE_OK) =>
                   NotificationsAt(rq) = {}

\* C26, amended: a GetFile run sends a directory-changed notification if and
\* only if its store succeeded: then exactly one, for the directory of the
\* path, after the store and before the final cache lookup and the callback.
\* When that lookup succeeds the run returns the re-fetched cache file as a
\* regular file; when it fails the run returns the lookup's error, the
\* notification having been sent.  A run that ends in a cache hit, a hosted
\* document or an error of an earlier stage sends no notification.
C26_NotifiesOnceIffStored ==
    \A rq \in Requests :
        (rq.op \in GetFileOps /\ rq.pc = "done") =>
            /\ StoreSucceeded(rq) =>
                   /\ NotifiedOnceAfterStore(rq)
                   /\ Len(StageReplies(rq)) = 8
                   /\ rq.result =
                          IF StageReplies(rq)[8][2] = DRIVE_FILE_OK
                          THEN FileResult(DRIVE_FILE_OK,
                                   CacheFilePath(RefreshedMd5(rq)),
                                   rq.entry_proto.content_mime_type,
                                   REGULAR_FILE)
                          ELSE FileResult(StageReplies(rq)[8][2], "", "",
                                          REGULAR_FILE)
            /\ ~StoreSucceeded(rq) => NotificationsAt(rq) = {}

\* A GetFile on a path in a subdirectory has stored its download, notified
\* the observers of that subdirectory and returned the cache file.
C26_Witness ==
    \E rq \in Requests :
        /\ rq.op \in GetFileOps /\ rq.pc = "done"
        /\ rq.path = "/d/b.txt"
        /\ StoreSucceeded(rq)
        /\ rq.result.error = DRIVE_FILE_OK
        /\ \E i \in NotificationsAt(rq) : rq.calls[i][2] = "/d"

\* The lookup that starts a GetFile has answered with an entry that carries
\* no file-specific information (a directory).
ResolvedToDirectory(rq) ==
    /\ rq.op \in GetFileOps
    /\ Len(rq.replies) >= 1
    /\ rq.replies[1][2] = DRIVE_FILE_OK
    /\ rq.replies[1][3] = "dir"

\* C27: a GetFile whose path or resource id resolves to an entry without
\* file-specific information is over as soon as the lookup answers, with
\* NOT_FOUND and no file, and the lookup is the only call it has made: no
\* call of the cache, of the scheduler or of the blocking pool.
C27_DirectoryIsNotFoundBeforeAnyCacheCall ==
    \A rq \in Requests :
        ResolvedToDirectory(rq) =>
            /\ rq.pc = "done"
            /\ rq.result = FileResult(DRIVE_FILE_ERROR_NOT_FOUND, "", "",
                                      REGULAR_FILE)
            /\ Len(rq.calls) = 1
            /\ rq.calls[1][1] \in {"resource_metadata.GetEntryInfoByPath",
                                   "resource_metadata.GetEntryInfoByResourceId"}
            /\ Len(rq.replies) = 1

\* A GetFileByPath of a directory has completed.
C27_Witness ==
    \E rq \in Requests :
        /\ ResolvedToDirectory(rq)
        /\ rq.op = "GetFileByPath"
        /\ rq.pc = "done"
        /\ rq.result.error = DRIVE_FILE_ERROR_NOT_FOUND

\* The context a request is to hand to the scheduler: the one its caller gave
\* to GetFileByResourceId; user initiated for GetFileByPath and OpenFile,
\* whose callers give none.
ExpectedContext(rq) ==
    IF rq.op = "GetFileByResourceId" THEN rq.given_context ELSE USER_INITIATED

SchedulerCallsAt(rq) ==
    {i \in 1..Len(rq.calls) :
         rq.calls[i][1] \in {"scheduler.GetResourceEntry",
                             "scheduler.DownloadFile"}}

\* C28: every call of the scheduler (the fetch of the resource entry, the
\* download) made for a GetFileByResourceId carries the context the caller
\* gave, and every one made for a GetFileByPath or an OpenFile carries
\* USER_INITIATED.
C28_ContextReachesScheduler ==
    \A rq \in Requests :
        \A i \in SchedulerCallsAt(rq) : rq.calls[i][2] = ExpectedContext(rq)

\* A GetFileByResourceId called with the background context has fetched the
\* entry and started the download, both in the background.
C28_Witness ==
    \E rq \in Requests :
        /\ rq.op = "GetFileByResourceId"
        /\ rq.given_context = BACKGROUND
        /\ \E i, j \in SchedulerCallsAt(rq) :
               /\ rq.calls[i] = <<"scheduler.GetResourceEntry", BACKGROUND>>
               /\ rq.calls[j] = <<"scheduler.DownloadFile", BACKGROUND>>

\* The index of the call of the download in the call log (0 when none).
DownloadCallAt(rq) ==
    IF "scheduler.DownloadFile" \in Callees(rq)
    THEN CHOOSE i \in 1..Len(rq.calls) : rq.calls[i][1] = "scheduler.DownloadFile"
    ELSE 0

\* C29: a GetFile whose download ended cancelled is over with CANCELLED and
\* no file.  Its refresh of the metadata entry was made, and answered OK,
\* before the download; from the call of the download on the run calls
\* nothing but the cache-entry lookup and the Unpin of the cancel path: no
\* DriveResourceMetadata call and no store into the cache.
C29_CancelKeepsRefreshAndStoresNothing ==
    \A rq \in Requests :
        (rq.op \in GetFileOps /\ DownloadCancelled(rq)) =>
            /\ rq.pc = "done"
            /\ rq.result = FileResult(DRIVE_FILE_ERROR_CANCELLED, "", "",
                                      REGULAR_FILE)
            /\ StageReplies(rq)[3][1] = "resource_metadata.RefreshEntry"
            /\ StageReplies(rq)[3][2] = DRIVE_FILE_OK
            /\ rq.entry_proto.file_md5 = RefreshedMd5(rq)
            /\ \A i \in 1..Len(rq.calls) :
                   /\ rq.calls[i][1] = "resource_metadata.RefreshEntry" =>
                          i < DownloadCallAt(rq)
                   /\ i > DownloadCallAt(rq) =>
                          rq.calls[i][1] \in {"cache.GetCacheEntry", "cache.Unpin"}

\* A GetFile whose refresh brought a new md5 had its download cancelled and
\* has unpinned the cache entry.
C29_Witness ==
    \E rq \in Requests :
        /\ rq.op \in GetFileOps /\ DownloadCancelled(rq)
        /\ rq.result.error = DRIVE_FILE_ERROR_CANCELLED
        /\ RefreshedMd5(rq) # LocalMd5
        /\ "cache.Unpin" \in Callees(rq)

\* The first cache lookup of a GetFile answered with a miss.
CacheMissed(rq) ==
    /\ rq.op \in GetFileOps
    /\ Len(StageReplies(rq)) >= 1
    /\ StageReplies(rq)[1][2] # DRIVE_FILE_OK

\* The request waits for the status of a download it has started.
DownloadInFlight(rq) ==
    /\ rq.pc = "GetResolvedFileByPathAfterDownloadFile"
    /\ Len(StageCalls(rq)) = 6
    /\ Len(StageReplies(rq)) = 5

\* Whatever the other requests are doing, a request that missed the cache
\* has fetched the resource entry itself, has made each later stage call
\* itself, and its result is the one its own replies stand for.
RunsOwnPipeline(rq) ==
    CacheMissed(rq) =>
        /\ Len(StageCalls(rq)) >= 2
        /\ StageCalls(rq)[2][1] = "scheduler.GetResourceEntry"
        /\ rq.pc # "done" => Len(StageCalls(rq)) = Len(StageReplies(rq)) + 1
        /\ rq.pc = "done" =>
               rq.result =
                   IF StageError(LastStageReply(rq)) = DRIVE_FILE_OK
                   THEN FileResult(DRIVE_FILE_OK,
                                   CacheFilePath(RefreshedMd5(rq)),
                                   rq.entry_proto.content_mime_type,
                                   REGULAR_FILE)
                   ELSE FileResult(StageError(LastStageReply(rq)), "", "",
                                   REGULAR_FILE)

\* A step is a step of one request: it leaves every other request as it is.
OneRequestSteps ==
    \A a, b \in Slots : a # b => (req'[a] = req[a] \/ req'[b] = req[b])

\* C30: GetFile calls are not coalesced.  Every GetFile that misses the
\* cache runs its own pipeline and gets the result of its own replies, also
\* while another GetFile on the same path is in flight, and no step of one
\* request changes another.
C30_GetFileNotCoalesced ==
    /\ [](\A rq \in Requests : RunsOwnPipeline(rq))
    /\ [][OneRequestSteps]_vars

\* Two GetFile calls on one path both wait for a download of the same
\* (resource id, md5).
C30_Witness ==
    \E a, b \in Slots :
        /\ a # b
        /\ req[a].path = req[b].path
        /\ CacheMissed(req[a]) /\ CacheMissed(req[b])
        /\ DownloadInFlight(req[a]) /\ DownloadInFlight(req[b])
        /\ req[a].entry_proto.resource_id = req[b].entry_proto.resource_id
        /\ req[a].entry_proto.file_md5 = req[b].entry_proto.file_md5

\* The reply of a local file operation posted to the blocking pool reports a
\* failure.
LocalIOFailed(rq, callee) ==
    \E i \in 1..Len(rq.replies) :
        /\ rq.replies[i][1] = callee
        /\ rq.replies[i][2] \in {"FALSE", DRIVE_FILE_ERROR_FAILED}

\* The document file of a hosted document is staged only when both the
\* creation of the temporary file and the write of the document succeed.
StagingFailsAsFailed ==
    \A created, written \in BOOLEAN :
        (~created \/ ~written) =>
            CreateDocumentJsonFileOnBlockingPool(created, written)
                = DRIVE_FILE_ERROR_FAILED

\* A failure to create the download destination or to stage the document
\* of a hosted document ends the GetFile with FAILED.
GetFileLocalIOFailsAsFailed ==
    \A rq \in Requests :
        (/\ rq.op \in GetFileOps
         /\ \/ LocalIOFailed(rq, "blocking_pool.CreateTemporaryFileInDir")
            \/ LocalIOFailed(rq, "blocking_pool.CreateDocumentJsonFile")) =>
            /\ rq.pc = "done"
            /\ rq.result = FileResult(DRIVE_FILE_ERROR_FAILED, "", "",
                                      REGULAR_FILE)

\* C31 as stated: every local-I/O failure is reported as FAILED: the
\* creation of the download destination, the staging of the document of a
\* hosted document, and the file-info probe of a dirty cache file in
\* GetEntryInfoByPath.
C31_LocalIOFailuresAreFailed ==
    /\ StagingFailsAsFailed
    /\ GetFileLocalIOFailsAsFailed
    /\ \A rq \in Requests :
           (/\ rq.op = "GetEntryInfoByPath"
            /\ LocalIOFailed(rq, "blocking_pool.GetFileInfo")) =>
               /\ rq.pc = "done"
               /\ rq.result.error = DRIVE_FILE_ERROR_FAILED

\* C31, amended: a failure to create the download destination and a failure
\* to stage the document of a hosted document are reported as FAILED; a
\* failed file-info probe of a dirty cache file in GetEntryInfoByPath is
\* reported as NOT_FOUND, with no entry.
C31_ProbeFailureIsNotFound ==
    /\ StagingFailsAsFailed
    /\ GetFileLocalIOFailsAsFailed
    /\ \A rq \in Requests :
           (/\ rq.op = "GetEntryInfoByPath"
            /\ LocalIOFailed(rq, "blocking_pool.GetFileInfo")) =>
               /\ rq.pc = "done"
               /\ rq.result = EntryInfoResult(DRIVE_FILE_ERROR_NOT_FOUND,
                                              NullEntry)

\* A GetEntryInfoByPath has ended on a failed probe of the dirty cache file.
C31_Witness ==
    \E rq \in Requests :
        /\ rq.op = "GetEntryInfoByPath"
        /\ LocalIOFailed(rq, "blocking_pool.GetFileInfo")
        /\ rq.pc = "done"
        /\ rq.result.error = DRIVE_FILE_ERROR_NOT_FOUND

Elems(q) == {q[k] : k \in 1..Len(q)}

\* The entries of the batch whose lookup has answered OK.
KnownEntries(s) ==
    {s.entries[i] : i \in (1..Len(s.entries)) \ s.pending} \ s.unknown

\* The state part of C32.
UnknownEntriesLeftOut ==
    /\ Elems(search.results) \cap search.unknown = {}
    /\ Elems(search.result.results) \cap search.unknown = {}
    /\ search.checks = Cardinality(search.unknown)
    /\ search.entries # <<>> /\ search.runs > 0 =>
           /\ search.result.error = DRIVE_FILE_OK
           /\ Elems(search.result.results) \subseteq KnownEntries(search)
           /\ (search.completed_at_callback = 1..Len(search.entries)
               /\ search.pc = "done") =>
                  Elems(search.result.results) = KnownEntries(search)

\* The step part of C32: the callback of a lookup that answered NOT_FOUND
\* starts a load of the change list loader exactly when the loader exists,
\* is loaded and is not refreshing, and the callback of the last entry of
\* the batch runs the search callback in the same step, whatever its
\* lookup answered.
UnknownEntryChecksForUpdates ==
    /\ (search.pc = "AddToSearchResults"
        /\ search'.unknown # search.unknown) =>
           /\ search'.checks = search.checks + 1
           /\ change_list_loader_' =
                  IF StartsRefresh
                  THEN LoadFromServerIfNeeded(change_list_loader_,
                                              "OnUpdateChecked")
                  ELSE change_list_loader_
           /\ search'.refreshes =
                  search.refreshes + (IF StartsRefresh THEN 1 ELSE 0)
    /\ (search.pc = "AddToSearchResults"
        /\ Len(search.entries) \in search.pending
        /\ Len(search.entries) \notin search'.pending) =>
           search'.runs = search.runs + 1

\* C32: an entry of a search batch that the metadata does not know
\* (NOT_FOUND) is left out of the results and makes one CheckForUpdates,
\* which starts a load only when the loader is loaded and not refreshing;
\* the search callback is not delayed by it and runs with OK and entries
\* that are known, all of them when every lookup had completed by then.
C32_UnknownEntriesLeftOutAndChecked ==
    /\ []UnknownEntriesLeftOut
    /\ [][UnknownEntryChecksForUpdates]_vars

\* A search over two entries, one known and one not, has completed with the
\* known one, and the unknown one has started a load.
C32_Witness ==
    /\ search.pc = "done"
    /\ Len(search.entries) = 2
    /\ Cardinality(search.unknown) = 1
    /\ search.result.error = DRIVE_FILE_OK
    /\ Len(search.result.results) = 1
    /\ search.refreshes = 1

\* C38: the search callback runs exactly once, and when it runs for a batch
\* with entries the RefreshEntry callback of every entry of the batch has
\* run, in whatever order the callbacks run, so that no callback pushes to
\* the results afterwards; a search with an empty batch completes at once
\* with no results.
C38_SearchCompletesOnceAfterEveryLookup ==
    /\ search.runs <= 1
    /\ search.pc = "done" => search.runs = 1
    /\ (search.runs = 1 /\ search.entries # <<>>) =>
           /\ search.completed_at_callback = 1..Len(search.entries)
           /\ ~search.wrote_after_pass
    /\ (search.pc = "done" /\ search.entries = <<>>) =>
           /\ search.result.results = <<>>
           /\ search.checks = 0

\* C33: AddUploadedFile stores the content into the cache only after
\* AddEntry answered OK.  When AddEntry fails the caller gets its error at
\* once and neither the store nor a notification is made.  When it
\* succeeds the calls are AddEntry, one directory-changed notification for
\* the directory of the added entry, and the store, in this order, and the
\* caller gets the status of the store.
C33_StoreFollowsInsertion ==
    \A rq \in Requests :
        (rq.op = "AddUploadedFile" /\ Len(rq.replies) >= 1) =>
            IF rq.replies[1][2] # DRIVE_FILE_OK
            THEN /\ rq.pc = "done"
                 /\ rq.result = ErrorResult(rq.replies[1][2])
                 /\ rq.calls = <<<<"resource_metadata.AddEntry", rq.path>>>>
            ELSE /\ rq.calls =
                        <<<<"resource_metadata.AddEntry", rq.path>>,
                          <<"observers.OnDirectoryChanged", DirName(rq.path)>>,
                          <<"cache.Store", rq.entry_proto.file_md5>>>>
                 /\ IF Len(rq.replies) = 1
                    THEN rq.pc = "AddUploadedFileStore"
                    ELSE /\ rq.pc = "done"
                         /\ rq.replies[2][1] = "cache.Store"
                         /\ rq.result = ErrorResult(rq.replies[2][2])

\* One AddUploadedFile failed at the insertion, and another one, of an entry
\* in a subdirectory, was inserted and then failed at the store.
C33_Witness ==
    /\ \E rq \in Requests :
           /\ rq.op = "AddUploadedFile" /\ rq.pc = "done"
           /\ Len(rq.replies) = 1
           /\ rq.result.error = DRIVE_FILE_ERROR_EXISTS
    /\ \E rq \in Requests :
           /\ rq.op = "AddUploadedFile" /\ rq.pc = "done"
           /\ rq.path = "/d/b.txt"
           /\ Len(rq.replies) = 2
           /\ rq.result.error = DRIVE_FILE_ERROR_FAILED

LoaderMoves ==
    {<<"Unloaded", "Loading">>, <<"Loading", "Loaded">>,
     <<"Loaded", "Refreshing">>, <<"Refreshing", "Loaded">>}

\* The loader was replaced by a new one in this step (SetupChangeListLoader
\* in Initialize and in ReloadAfterReset).
LoaderReplaced ==
    \/ ~change_list_loader_.exists /\ change_list_loader_'.exists
    \/ resets_pending' < resets_pending

\* The step part of C34: a loader changes its state along LoaderMoves only,
\* a load starts exactly on the moves to Loading and to Refreshing and ends
\* exactly on the moves to Loaded; the new loader of ReloadAfterReset, asked
\* at once, is in its full load.
LoaderStep ==
    LET a == change_list_loader_.state
        b == change_list_loader_'.state
    IN  IF LoaderReplaced
        THEN /\ change_list_loader_'.exists
             /\ b = IF resets_pending' < resets_pending
                    THEN "Loading" ELSE "Unloaded"
        ELSE /\ a # b => <<a, b>> \in LoaderMoves
             /\ change_list_loader_'.loads > change_list_loader_.loads <=>
                    b \in {"Loading", "Refreshing"} /\ a # b
             /\ change_list_loader_'.loads < change_list_loader_.loads <=>
                    b = "Loaded" /\ a # b

\* The state part of C34: asked by LoadIfNeeded, an unloaded loader starts
\* its full load whatever the request, and a loaded or refreshing loader
\* whose tree satisfies the request stays exactly as it is, with no load
\* started and no callback left waiting.
LoadIfNeededOnlyWhenNeeded ==
    change_list_loader_.exists =>
        /\ change_list_loader_.state = "Unloaded" =>
               \A satisfied \in BOOLEAN :
                   LET l == ChangeListLoaderLoadIfNeeded(
                                change_list_loader_, satisfied, "callback")
                   IN  /\ l.state = "Loading"
                       /\ l.loads = 1
                       /\ l.pending = <<"callback">>
        /\ loaded(change_list_loader_) =>
               ChangeListLoaderLoadIfNeeded(change_list_loader_, TRUE,
                                            "callback") = change_list_loader_
        /\ change_list_loader_.loads =
               (IF change_list_loader_.state \in {"Loading", "Refreshing"}
                THEN 1 ELSE 0)

\* C34: the change list loader moves only from Unloaded to Loading, from
\* Loading to Loaded, from Loaded to Refreshing and from Refreshing back to
\* Loaded; a LoadIfNeeded made while it is Unloaded starts a full load, and
\* one made while it is Loaded or Refreshing for a directory whose
\* changestamp is already known starts no load and leaves the loader as it
\* is.
C34_LoaderStateMachine ==
    /\ []LoadIfNeededOnlyWhenNeeded
    /\ [][LoaderStep]_vars

\* A loader that was loaded in full has started a refresh, and a request
\* that the tree does not satisfy waits for the end of that refresh.
C34_Witness ==
    /\ change_list_loader_.exists
    /\ change_list_loader_.state = "Refreshing"
    /\ change_list_loader_.pending = <<"OnUpdateChecked", "callback">>

\* The cache records (md5 of the one resource) named by the calls of
\* |callee| in the call log.
RecordsOf(rq, callee) ==
    {rq.calls[i][2] : i \in {j \in 1..Len(rq.calls) : rq.calls[j][1] = callee}}

\* C35: an OpenFile that got its file through a download marks dirty, and
\* then fetches and returns, the cache record under which the pipeline
\* stored the download, also when RefreshEntry changed the md5 of the entry.
C35_OpenMarksTheStoredRecord ==
    \A rq \in Requests :
        (/\ rq.op = "OpenFile"
         /\ "cache.Store" \in Callees(rq)
         /\ "cache.MarkDirty" \in Callees(rq)) =>
            /\ RecordsOf(rq, "cache.MarkDirty") = RecordsOf(rq, "cache.Store")
            /\ (rq.pc = "done" /\ rq.result.error = DRIVE_FILE_OK) =>
                   \A m \in RecordsOf(rq, "cache.Store") :
                       rq.result.file = CacheFilePath(m)

\* The request is a CloseFile of |p| that has been called and has not run
\* its callback.
ClosingInFlight(rq, p) ==
    rq.op = "CloseFile" /\ rq.path = p /\ rq.pc \notin {"idle", "done"}

\* C36: when two CloseFile calls on an open path overlap, the later one is
\* rejected: of two CloseFile calls of one path that are in flight together
\* one waits to be called back with NOT_FOUND and has called nothing, so
\* that CommitDirty is called for the path once.
C36_OverlappingCloseCommitsOnce ==
    \A a, b \in Slots : \A p \in Paths :
        (a # b /\ ClosingInFlight(req[a], p) /\ ClosingInFlight(req[b], p)) =>
            /\ \E r \in {a, b} :
                   /\ req[r].pc = "PostedCallback"
                   /\ req[r].result.error = DRIVE_FILE_ERROR_NOT_FOUND
                   /\ req[r].calls = <<>>
            /\ ~ /\ "cache.CommitDirty" \in Callees(req[a])
                 /\ "cache.CommitDirty" \in Callees(req[b])

\* The request staged a temporary download file: CreateTemporaryFileInDir
\* answered it with success.
StagedTemporaryFile(rq) ==
    <<"blocking_pool.CreateTemporaryFileInDir", BoolStr(TRUE), "", "">> \in Replies(rq)

\* The staged file left the temporary download area: DriveCache::Store moved
\* it into the cache, or its deletion was posted to the blocking pool.
TemporaryFileDisposed(rq) ==
    \/ ErrorReply("cache.Store", DRIVE_FILE_OK) \in Replies(rq)
    \/ "blocking_pool.Delete" \in Callees(rq)

\* C37: a request that staged a temporary download file and has run its
\* callback, whatever the outcome, has had the file moved into the cache or
\* has posted its deletion.
C37_TemporaryFileNeverLeftBehind ==
    \A rq \in Requests :
        (StagedTemporaryFile(rq) /\ rq.pc = "done") => TemporaryFileDisposed(rq)

\* The interval is the slow one exactly when push notification is enabled,
\* and the fast one otherwise.
IntervalFollowsPushFlag ==
    /\ polling_interval_sec_ \in {kFastPollingIntervalInSec, kSlowPollingIntervalInSec}
    /\ polling_interval_sec_ = kSlowPollingIntervalInSec <=> push_notification_enabled_

\* A step that changes the flag or the interval is a SetPushNotificationEnabled.
OnlySetPushNotificationEnabledChanges ==
    (\/ polling_interval_sec_' # polling_interval_sec_
     \/ push_notification_enabled_' # push_notification_enabled_) =>
        \E enabled \in BOOLEAN : SetPushNotificationEnabled(enabled)

\* C39: the polling interval is 300 s if and only if push notification is
\* enabled and 60 s otherwise, from construction (60 s, disabled) onwards and
\* after any sequence of SetPushNotificationEnabled calls, and no other
\* operation changes the flag or the interval.
C39_IntervalIffPushEnabled ==
    /\ (polling_interval_sec_ = kFastPollingIntervalInSec
        /\ ~push_notification_enabled_)
    /\ [](IntervalFollowsPushFlag)
    /\ [][OnlySetPushNotificationEnabledChanges]_vars

\* Push notification was enabled while the timer was running and a load was
\* in progress.
C39_Witness ==
    /\ push_notification_enabled_
    /\ polling_interval_sec_ = kSlowPollingIntervalInSec
    /\ update_timer_.running
    /\ change_list_loader_.exists
    /\ now > 0

\* The first lookup of a GetFile request, by path or by resource id, failed.
FirstLookupFailed(rq) ==
    /\ rq.op \in GetFileOps
    /\ Len(rq.replies) >= 1
    /\ rq.replies[1][1] \in {"resource_metadata.GetEntryInfoByPath",
                             "resource_metadata.GetEntryInfoByResourceId"}
    /\ rq.replies[1][2] # DRIVE_FILE_OK

\* The error a GetFile request reports for a failed first lookup.
ErrorForFailedLookup(rq) ==
    IF rq.op = "GetFileByResourceId" THEN DRIVE_FILE_ERROR_NOT_FOUND
    ELSE rq.replies[1][2]

\* C40: a GetFileByResourceId whose id lookup failed reports NOT_FOUND
\* whatever the lookup's error was, a GetFileByPath whose path lookup failed
\* reports the lookup's error unchanged, and in both cases the callback runs
\* once and the lookup is the only call the request ever makes: no cache
\* call and no server call follows.
C40_FailedLookupEndsTheRequest ==
    \A rq \in Requests :
        FirstLookupFailed(rq) =>
            /\ rq.pc = "done"
            /\ rq.runs = 1
            /\ rq.result.error = ErrorForFailedLookup(rq)
            /\ Len(rq.calls) = 1
            /\ rq.cancel = "none"

\* One request by resource id whose lookup failed with FAILED was reported
\* as NOT_FOUND, and one request by path was reported its lookup's FAILED.
C40_Witness ==
    /\ \E rq \in Requests :
           /\ rq.op = "GetFileByResourceId"
           /\ FirstLookupFailed(rq)
           /\ rq.replies[1][2] = DRIVE_FILE_ERROR_FAILED
           /\ rq.result.error = DRIVE_FILE_ERROR_NOT_FOUND
    /\ \E rq \in Requests :
           /\ rq.op = "GetFileByPath"
           /\ FirstLookupFailed(rq)
           /\ rq.result.error = DRIVE_FILE_ERROR_FAILED

====
